---- MODULE Spec2Model ----
(***************************************************************************)
(* Model of the hef_metrics_generator post-processing pipeline:            *)
(* core/generate.py (_postprocess, _validate_and_filter_metrics,           *)
(* _structured_extract_metrics, _assert_min_max_combo), schemas/metric.py  *)
(* (Source, Metric), schemas/output.py (MetricsConstraints, MetricsOutput) *)
(* and validators/tool_validator.py (validate_source_with_llm).            *)
(*                                                                         *)
(* Strings are kept as TLA+ strings; a host name is a sequence of chunks   *)
(* (pieces of the host string) so that the substring test of               *)
(* Metric._filter_sources is a real sub-sequence test.                     *)
(***************************************************************************)
EXTENDS Integers, Sequences, FiniteSets, TLC

(***************************************************************************)
(* Bounds of the model.                                                    *)
(***************************************************************************)
\* largest number of source entries in one generated raw text (a text that
\* cites its last source twice in a row has one entry more)
MaxSources == 2
\* largest value of AGENT_MAX_RETRIES explored
MaxRetries == 2
\* largest num_metrics requested (also the longest generated list)
MaxNumMetrics == 2
\* largest min_sources_per_metric requested
MaxMinSources == 2

\* longest free-form raw text given to the extractor
MaxTextLen == 5
\* longest content of a fenced block in the fenced raw texts
MaxBodyLen == 3
\* most pieces (characters or escape pairs) inside a string literal of an
\* array embedded in prose
MaxStrLen == 2
\* most sources of a metric handed to Metric(...) on its own
MaxFieldSources == 3
\* most runs of equal characters in a task label
MaxRuns == 2
\* largest integer tried as a min or a max
MaxComboValue == 6
\* largest retries argument of retry_request
MaxHttpRetries == 2
\* most log and save calls on the query logger
MaxLoggerCalls == 4
\* latest second at which the query logger is called
MaxSecond == 2

(***************************************************************************)
(* utils/constants.py                                                      *)
(***************************************************************************)
MAX_METRIC_NAME_LEN == 100

TRUSTED_DOMAINS ==
  { <<"pubmed.ncbi.nlm.nih.gov">>, <<"arxiv.org">>, <<"semanticscholar.org">>,
    <<"springer.com">>, <<"sciencedirect.com">>, <<"wiley.com">>,
    <<"jamanetwork.com">>, <<"nejm.org">>, <<"thelancet.com">>,
    <<"bmcmededuc.biomedcentral.com">>, <<"mednexus.org">>, <<"doi.org">> }

(***************************************************************************)
(* Helpers on sequences.                                                   *)
(***************************************************************************)
\* python `needle in haystack` on strings, here on chunk sequences
Contains(haystack, needle) ==
  \E i \in 1..(Len(haystack) - Len(needle) + 1) :
     SubSeq(haystack, i, i + Len(needle) - 1) = needle

RECURSIVE SeqsUpTo(_, _)
\* all sequences over S of length at most n
SeqsUpTo(S, n) ==
  IF n = 0 THEN { <<>> }
  ELSE LET shorter == SeqsUpTo(S, n - 1)
       IN  shorter \cup { Append(s, x) : s \in { t \in shorter : Len(t) = n - 1 }, x \in S }

(***************************************************************************)
(* The values the generator can write into a raw text.                     *)
(***************************************************************************)
UrlA == [repr |-> "str", userinfo |-> <<>>, host |-> <<"arxiv.org">>, path |-> "/abs/1"]
UrlB == [repr |-> "str", userinfo |-> <<>>, host |-> <<"export.", "arxiv.org">>,
         path |-> "/abs/2"]
UrlC == [repr |-> "str", userinfo |-> <<>>, host |-> <<"example.com">>,
         path |-> "/arxiv.org"]
\* https://arxiv.org@example.com/abs/3
UrlU == [repr |-> "str", userinfo |-> <<"arxiv.org">>, host |-> <<"example.com">>,
         path |-> "/abs/3"]

SrcA == [title |-> "A Paper", url |-> UrlA]
SrcB == [title |-> "B Paper", url |-> UrlB]
SrcC == [title |-> "C Blog", url |-> UrlC]
SourcePool == { SrcA, SrcB, SrcC }
\* a source on an untrusted host whose URL names a trusted domain as the user
SrcU == [title |-> "U Paper", url |-> UrlU]
\* a source whose title has no letter
SrcT == [title |-> "123", url |-> UrlA]
\* a source whose title has a leading blank
SrcP == [title |-> " P Paper", url |-> UrlA]

Names == { "Accuracy", " Accuracy", "F1" }
MinVals == { 0, 1, 2 }
MaxVals == { 1, 5 }

\* str.strip() on the strings of the model
Strip(s) ==
  IF s = " Accuracy" THEN "Accuracy"
  ELSE IF s = " " THEN ""
  ELSE IF s = " P Paper" THEN "P Paper"
  ELSE IF s = " q" THEN "q"
  ELSE s

\* re.search(r"[A-Za-z]", v) on the strings of the model
HasLetter(s) == s \notin { "", " ", "123" }

\* _METRIC_NAME_RE.fullmatch(v) on the strings of the model
NameCharsOk(s) == s \notin { "", "F1!" }

MkMetric(name, mn, mx, srcs) ==
  [metric |-> name, min |-> mn, max |-> mx, description |-> "x",
   relevance |-> "y", sources |-> srcs, search_queries |-> <<"q">>]

(***************************************************************************)
(* schemas/metric.py                                                       *)
(***************************************************************************)
\* validate_general_text: the stripped text when it is acceptable
validate_general_text(value, max_len) ==
  LET v == Strip(value)
  IN  [ok |-> v # "" /\ Len(v) <= max_len /\ HasLetter(v), value |-> v]

\* validate_metric_name: the stripped name when it is acceptable
validate_metric_name(value) ==
  LET v == Strip(value)
  IN  [ok |-> v # "" /\ Len(v) <= MAX_METRIC_NAME_LEN /\ NameCharsOk(v), value |-> v]

\* Source(title=..., url=...): title validated and stripped, url parsed into
\* an HttpUrl object (a Url object is accepted as it is)
SourceModel(src) ==
  LET t == validate_general_text(src.title, 300)
  IN  [ok |-> t.ok /\ Len(src.url.host) > 0,
       value |-> [title |-> t.value, url |-> [src.url EXCEPT !.repr = "Url"]]]

\* urlparse(str(url)).netloc: the authority part, userinfo included
Netloc(url) ==
  IF url.userinfo = <<>> THEN url.host ELSE url.userinfo \o <<"@">> \o url.host

\* the host test of Metric._filter_sources
IsTrusted(s) == \E domain \in TRUSTED_DOMAINS : Contains(Netloc(s.url), domain)

\* Metric._filter_sources: the trusted sources, in order
FilterSources(v) == SelectSeq(v, IsTrusted)

\* a query cleaner that takes the first entry for a heading and skips it
ValidateQueriesSkipFirst(v) ==
  LET stripped == [i \in 1..Len(v) |-> Strip(v[i])]
      cleaned == SelectSeq(stripped, LAMBDA q : q # "")
  IN  IF cleaned = <<>> THEN cleaned ELSE Tail(cleaned)

\* Metric._validate_queries: the stripped non-blank queries
ValidateQueries(v) ==
  LET stripped == [i \in 1..Len(v) |-> Strip(v[i])]
  IN  SelectSeq(stripped, LAMBDA q : q # "")

\* a combo check that only compares min with max
ValidateMinMaxComboOrdered(mn, mx) == mn < mx

\* Metric._validate_min_max_combo
ValidateMinMaxCombo(mn, mx) == <<mn, mx>> \in { <<1, 5>>, <<0, 1>> }

\* Metric(**m): field validators, then the model validator
MetricModel(m) ==
  LET name == validate_metric_name(m.metric)
      desc == validate_general_text(m.description, 500)
      rel == validate_general_text(m.relevance, 500)
      srcs == [i \in 1..Len(m.sources) |-> SourceModel(m.sources[i])]
      srcsOk == \A i \in 1..Len(srcs) : srcs[i].ok
      trusted == FilterSources([i \in 1..Len(srcs) |-> srcs[i].value])
      queries == ValidateQueries(m.search_queries)
      fieldsOk == /\ name.ok
                  /\ m.min \in { 0, 1 }
                  /\ m.max \in { 1, 5 }
                  /\ desc.ok
                  /\ rel.ok
                  /\ srcsOk
                  /\ trusted # <<>>
                  /\ queries # <<>>
  IN  [ok |-> fieldsOk /\ ValidateMinMaxCombo(m.min, m.max),
       value |-> [metric |-> name.value, min |-> m.min, max |-> m.max,
                  description |-> desc.value, relevance |-> rel.value,
                  sources |-> trusted, search_queries |-> queries]]

(***************************************************************************)
(* schemas/output.py                                                       *)
(***************************************************************************)
\* MetricsConstraints(num_metrics=..., min_sources_per_metric=...)
MetricsConstraintsModel(num_metrics, min_sources_per_metric) ==
  [ok |-> num_metrics > 0 /\ min_sources_per_metric >= 1,
   value |-> [num_metrics |-> num_metrics,
              min_sources_per_metric |-> min_sources_per_metric]]

\* _find_duplicates: the items that occur again after their first occurrence
FindDuplicates(items) ==
  { items[i] : i \in { k \in 1..Len(items) : \E j \in 1..(k - 1) : items[j] = items[k] } }

\* the (title, url) key of the duplicate-source check
SourceKey(s) == <<Strip(s.title), s.url.userinfo, s.url.host, s.url.path>>

\* a count check that only rejects batches that are too long
CountOkAtMost(constraints, metrics) == Len(metrics) <= constraints.num_metrics

\* the four checks of MetricsOutput._validate_batch, in their order
CountOk(constraints, metrics) == Len(metrics) = constraints.num_metrics

\* a minimum-sources check that only asks for a non-empty source list
MinSourcesOkNonEmpty(constraints, metrics) ==
  \A i \in 1..Len(metrics) : Len(metrics[i].sources) >= 1

MinSourcesOk(constraints, metrics) ==
  \A i \in 1..Len(metrics) :
     Len(metrics[i].sources) >= constraints.min_sources_per_metric

\* a duplicate-name check that is never run
NamesOkSkipped(metrics) == TRUE

NamesOk(metrics) ==
  FindDuplicates([i \in 1..Len(metrics) |-> metrics[i].metric]) = {}

SourcePairsOk(metrics) ==
  \A i \in 1..Len(metrics) :
     FindDuplicates([k \in 1..Len(metrics[i].sources) |->
                        SourceKey(metrics[i].sources[k])]) = {}

\* MetricsOutput._validate_batch on validated Metric objects: the error raised
ValidateBatch(constraints, metrics) ==
  IF ~CountOk(constraints, metrics) THEN "batch_count"
  ELSE IF ~MinSourcesOk(constraints, metrics) THEN "batch_min_sources"
  ELSE IF ~NamesOk(metrics) THEN "batch_duplicate_name"
  ELSE IF ~SourcePairsOk(metrics) THEN "batch_duplicate_source"
  ELSE "ok"

\* MetricsOutput(constraints=..., metrics=[dict, ...]): every dict is turned
\* into a Metric first, the batch checks run on those Metric objects
MetricsOutputModel(constraints, dicts) ==
  LET models == [i \in 1..Len(dicts) |-> MetricModel(dicts[i])]
  IN  IF \E i \in 1..Len(models) : ~models[i].ok THEN "schema"
      ELSE ValidateBatch(constraints, [i \in 1..Len(models) |-> models[i].value])

(***************************************************************************)
(* schemas/context.py.  A label is a sequence of runs [ch, n]: n times the  *)
(* character ch ("a" stands for any letter, "1" for any other character).  *)
(***************************************************************************)
LabelWhitespace == { " ", "\n" }

RECURSIVE RunsLen(_)
\* len() of a label
RunsLen(label) == IF label = <<>> THEN 0 ELSE Head(label).n + RunsLen(Tail(label))

RECURSIVE LStripRuns(_)
LStripRuns(label) ==
  IF label # <<>> /\ Head(label).ch \in LabelWhitespace THEN LStripRuns(Tail(label))
  ELSE label

RECURSIVE RStripRuns(_)
RStripRuns(label) ==
  IF label # <<>> /\ label[Len(label)].ch \in LabelWhitespace
  THEN RStripRuns(SubSeq(label, 1, Len(label) - 1))
  ELSE label

\* _ALPHA_WORDS_RE.fullmatch(v)
AlphaWords(v) == v # <<>> /\ \A i \in 1..Len(v) : v[i].ch \in { "a", " " }

\* a label check without the upper length limit
validate_alpha_words_unlimited(value) ==
  LET v == RStripRuns(LStripRuns(value))
  IN  [ok |-> v # <<>> /\ RunsLen(v) >= 2 /\ AlphaWords(v), value |-> v]

\* validate_alpha_words: the stripped label when it is acceptable
validate_alpha_words(value) ==
  LET v == RStripRuns(LStripRuns(value))
  IN  [ok |-> v # <<>> /\ ~(RunsLen(v) < 2 \/ RunsLen(v) > 100) /\ AlphaWords(v),
       value |-> v]

\* TaskContext(...): the five field validators
TaskContextModel(args) ==
  LET d == validate_alpha_words(args.task_domain)
      f == validate_alpha_words(args.task_field)
      t == validate_alpha_words(args.task_type)
  IN  [ok |-> /\ d.ok
              /\ f.ok
              /\ t.ok
              /\ (1 <= args.num_metrics /\ args.num_metrics <= 50)
              /\ (1 <= args.min_sources_per_metric /\ args.min_sources_per_metric <= 20),
       value |-> [task_domain |-> d.value, task_field |-> f.value, task_type |-> t.value,
                  num_metrics |-> args.num_metrics,
                  min_sources_per_metric |-> args.min_sources_per_metric]]

(***************************************************************************)
(* validators/tool_validator.py                                            *)
(***************************************************************************)
\* what llm.invoke can do for a judge prompt: raise, or answer with a text
JudgeResponses == { "Yes.", "no", "RAISE" }

\* response.content.strip().lower().startswith("yes") on the model's answers
StartsWithYes(content) == content \in { "Yes.", "yes", " YES" }

\* a judge wrapper that keeps the source when the LLM call raises (fail-open)
ValidateSourceWithLlmFailOpen(response) ==
  IF response = "RAISE" THEN TRUE ELSE StartsWithYes(response)

\* validate_source_with_llm: TRUE when the Source is returned, FALSE for None
ValidateSourceWithLlm(response) ==
  IF response = "RAISE" THEN FALSE ELSE StartsWithYes(response)

(***************************************************************************)
(* core/generate.py: pure helpers                                          *)
(***************************************************************************)
\* a guard that only compares min with max
AssertMinMaxComboOrdered(ms) == \A i \in 1..Len(ms) : ms[i].min < ms[i].max

\* _assert_min_max_combo: TRUE when no metric raises
AssertMinMaxCombo(ms) ==
  \A i \in 1..Len(ms) : <<ms[i].min, ms[i].max>> \in { <<0, 1>>, <<1, 5>> }

\* _normalize_metrics_list on Metric objects: model_dump() keeps Url objects
\* (on dicts it is the identity)
NormalizeMetricsList(ms) == ms

\* json.dumps cannot serialise a Url object
JsonSerializable(ms) ==
  \A i \in 1..Len(ms) : \A k \in 1..Len(ms[i].sources) :
     ms[i].sources[k].url.repr = "str"

\* json.dumps(filtered): the JSON text, a top-level array of the metric dicts
JsonDumps(ms) == [json |-> "array", items |-> ms]

\* lines 180-186 and 338: the error that ends the attempt, or "ok"
ValidateOutcome(filtered, inp) ==
  LET c == MetricsConstraintsModel(inp.num_metrics, inp.min_sources_per_metric)
  IN  IF ~AssertMinMaxCombo(filtered) THEN "min_max"
      ELSE IF ~c.ok THEN "constraints"
      ELSE IF MetricsOutputModel(c.value, filtered) # "ok"
           THEN MetricsOutputModel(c.value, filtered)
      ELSE IF ~JsonSerializable(filtered) THEN "json_dumps"
      ELSE "ok"

(***************************************************************************)
(* core/generate.py: _extract_json_array_str.  A text is a sequence of     *)
(* tokens: single characters, the fence marker of three backticks, the     *)
(* line break "\r\n" and whole words ("json", "x").                        *)
(***************************************************************************)
\* the marker of three backquote characters, as one token
FENCE == "<fence>"
QUOTE == "\""
BACKSLASH == "\\"
Whitespace == { " ", "\n", "\r\n" }
LineBreaks == { "\n", "\r\n" }
LanguageTags == { <<"json">>, <<"json5">>, <<"jsonc">> }

RECURSIVE LStrip(_)
LStrip(s) == IF s # <<>> /\ Head(s) \in Whitespace THEN LStrip(Tail(s)) ELSE s

RECURSIVE RStrip(_)
RStrip(s) ==
  IF s # <<>> /\ s[Len(s)] \in Whitespace THEN RStrip(SubSeq(s, 1, Len(s) - 1)) ELSE s

\* str.strip()
StripText(s) == RStrip(LStrip(s))

\* str.lower() on the words of the model
LowerText(s) ==
  [i \in 1..Len(s) |-> IF s[i] = "JSON" THEN "json" ELSE IF s[i] = "X" THEN "x" ELSE s[i]]

\* s.startswith("[") and s.endswith("]")
Bracketed(s) == s # <<>> /\ s[1] = "[" /\ s[Len(s)] = "]"

\* index of the first token of s that is in set, 0 when there is none
FirstIn(s, set) ==
  IF \E i \in 1..Len(s) : s[i] \in set
  THEN CHOOSE i \in 1..Len(s) : s[i] \in set /\ \A k \in 1..(i - 1) : s[k] \notin set
  ELSE 0

RECURSIVE SplitFences(_)
\* s.split(FENCE)
SplitFences(s) ==
  LET i == FirstIn(s, { FENCE })
  IN  IF i = 0 THEN <<s>>
      ELSE <<SubSeq(s, 1, i - 1)>> \o SplitFences(SubSeq(s, i + 1, Len(s)))

RECURSIVE SplitLines(_)
\* str.splitlines()
SplitLines(s) ==
  LET i == FirstIn(s, LineBreaks)
  IN  IF s = <<>> THEN <<>>
      ELSE IF i = 0 THEN <<s>>
      ELSE <<SubSeq(s, 1, i - 1)>> \o SplitLines(SubSeq(s, i + 1, Len(s)))

RECURSIVE JoinLines(_)
\* "\n".join(lines)
JoinLines(lines) ==
  IF lines = <<>> THEN <<>>
  ELSE IF Len(lines) = 1 THEN lines[1]
  ELSE lines[1] \o <<"\n">> \o JoinLines(Tail(lines))

\* a tag test that compares the first line as written
FencedBlockCaseSensitive(part) ==
  LET block_lines == SplitLines(part)
      tagged == /\ block_lines # <<>>
                /\ StripText(block_lines[1]) \in LanguageTags
  IN  StripText(IF tagged THEN JoinLines(Tail(block_lines)) ELSE part)

\* lines 65-71: one fenced part without its language tag line, stripped
FencedBlock(part) ==
  LET block_lines == SplitLines(part)
      tagged == /\ block_lines # <<>>
                /\ LowerText(StripText(block_lines[1])) \in LanguageTags
  IN  StripText(IF tagged THEN JoinLines(Tail(block_lines)) ELSE part)

\* lines 62-73: the first odd part of the split whose block is bracketed
FenceStrategy(s) ==
  LET parts == SplitFences(s)
      hits == { i \in 1..Len(parts) : i % 2 = 0 /\ Bracketed(FencedBlock(parts[i])) }
  IN  IF FENCE \in { s[i] : i \in 1..Len(s) } /\ hits # {}
      THEN [ok |-> TRUE,
            value |-> FencedBlock(parts[CHOOSE i \in hits : \A k \in hits : i <= k])]
      ELSE [ok |-> FALSE, value |-> <<>>]

RECURSIVE ScanFromEscapeBlind(_, _, _, _, _, _)
\* a scan without the escape flag: every quote inside a string ends it
ScanFromEscapeBlind(s, start, j, depth, in_string, escape) ==
  IF j > Len(s) THEN [ok |-> FALSE, value |-> <<>>]
  ELSE LET ch == s[j]
       IN  IF in_string
           THEN IF ch = QUOTE THEN ScanFromEscapeBlind(s, start, j + 1, depth, FALSE, FALSE)
                ELSE ScanFromEscapeBlind(s, start, j + 1, depth, TRUE, FALSE)
           ELSE IF ch = QUOTE THEN ScanFromEscapeBlind(s, start, j + 1, depth, TRUE, escape)
                ELSE IF ch = "[" THEN ScanFromEscapeBlind(s, start, j + 1, depth + 1, FALSE, escape)
                ELSE IF ch = "]"
                     THEN IF depth - 1 = 0 /\ Bracketed(StripText(SubSeq(s, start, j)))
                          THEN [ok |-> TRUE, value |-> StripText(SubSeq(s, start, j))]
                          ELSE ScanFromEscapeBlind(s, start, j + 1, depth - 1, FALSE, escape)
                ELSE ScanFromEscapeBlind(s, start, j + 1, depth, FALSE, escape)

RECURSIVE ScanFrom(_, _, _, _, _, _)
\* lines 80-99: the loop body for index j and the rest of the loop
ScanFrom(s, start, j, depth, in_string, escape) ==
  IF j > Len(s) THEN [ok |-> FALSE, value |-> <<>>]
  ELSE LET ch == s[j]
       IN  IF in_string
           THEN IF escape THEN ScanFrom(s, start, j + 1, depth, TRUE, FALSE)
                ELSE IF ch = BACKSLASH THEN ScanFrom(s, start, j + 1, depth, TRUE, TRUE)
                ELSE IF ch = QUOTE THEN ScanFrom(s, start, j + 1, depth, FALSE, FALSE)
                ELSE ScanFrom(s, start, j + 1, depth, TRUE, FALSE)
           ELSE IF ch = QUOTE THEN ScanFrom(s, start, j + 1, depth, TRUE, escape)
                ELSE IF ch = "[" THEN ScanFrom(s, start, j + 1, depth + 1, FALSE, escape)
                ELSE IF ch = "]"
                     THEN IF depth - 1 = 0 /\ Bracketed(StripText(SubSeq(s, start, j)))
                          THEN [ok |-> TRUE, value |-> StripText(SubSeq(s, start, j))]
                          ELSE ScanFrom(s, start, j + 1, depth - 1, FALSE, escape)
                ELSE ScanFrom(s, start, j + 1, depth, FALSE, escape)

\* a scan that, when the depth never returns to zero, settles for the text
\* from the first "[" to the last "]"
ScanStrategyToLastBracket(s) ==
  LET start == FirstIn(s, { "[" })
      closers == { j \in 1..Len(s) : j > start /\ s[j] = "]" }
  IN  IF start = 0 THEN [ok |-> FALSE, value |-> <<>>]
      ELSE IF ScanFrom(s, start, start, 0, FALSE, FALSE).ok
           THEN ScanFrom(s, start, start, 0, FALSE, FALSE)
      ELSE IF closers # {}
           THEN [ok |-> TRUE,
                 value |-> SubSeq(s, start, CHOOSE j \in closers : \A k \in closers : k <= j)]
      ELSE [ok |-> FALSE, value |-> <<>>]

\* lines 75-99: the scan from the first "["
ScanStrategy(s) ==
  LET start == FirstIn(s, { "[" })
  IN  IF start = 0 THEN [ok |-> FALSE, value |-> <<>>]
      ELSE ScanFrom(s, start, start, 0, FALSE, FALSE)

\* an extractor without lines 59-60
ExtractJsonArrayStrNoWholeText(raw) ==
  LET s == StripText(raw)
  IN  IF FenceStrategy(s).ok THEN FenceStrategy(s) ELSE ScanStrategy(s)

\* _extract_json_array_str: the string returned, or ok = FALSE for ValueError
ExtractJsonArrayStr(raw) ==
  LET s == StripText(raw)
  IN  IF Bracketed(s) THEN [ok |-> TRUE, value |-> s]
      ELSE IF FenceStrategy(s).ok THEN FenceStrategy(s)
      ELSE ScanStrategy(s)

\* the characters of the free-form raw texts
TextAlphabet == { "[", "]", QUOTE, BACKSLASH, "x", " ", "\n", FENCE }

\* every text of at most MaxTextLen tokens
PlainTexts == SeqsUpTo(TextAlphabet, MaxTextLen)

\* texts built around a fenced block: some prose, the opening fence, a first
\* line, the content, a closing fence (or none) and a tail
FencedTexts ==
  { pre \o <<FENCE>> \o firstline \o body \o closing \o post :
      pre \in { <<>>, <<"x", " ">>, <<" ", "[">>, <<"[", "]", " ">> },
      firstline \in { <<>>, <<"json", "\n">>, <<"JSON", "\n">>, <<" ", "json5", " ", "\n">>,
                      <<"jsonc", "\r\n">>, <<"x", "\n">>, <<"\n">>, <<"json">> },
      body \in SeqsUpTo({ "[", "]", "x", "\r\n" }, MaxBodyLen),
      closing \in { <<>>, <<FENCE>> },
      post \in { <<>>, <<" ", "x">>, <<"]">>, <<FENCE, "json", "\n", "[", "x", "]", FENCE>> } }

\* what a string literal is made of: a character, or a backslash with the
\* character it escapes
StringPieces == { <<"[">>, <<"]">>, <<"x">>, <<BACKSLASH, QUOTE>>, <<BACKSLASH, BACKSLASH>> }

RECURSIVE JoinPieces(_)
JoinPieces(pieces) ==
  IF pieces = <<>> THEN <<>> ELSE Head(pieces) \o JoinPieces(Tail(pieces))

StringLiterals ==
  { <<QUOTE>> \o JoinPieces(b) \o <<QUOTE>> : b \in SeqsUpTo(StringPieces, MaxStrLen) }

\* arrays holding one string literal, alone, before an inner array or inside one
EmbeddedArrays ==
  { <<"[">> \o lit \o <<"]">> : lit \in StringLiterals }
    \cup { <<"[">> \o lit \o <<" ", "[", "]", "]">> : lit \in StringLiterals }
    \cup { <<"[", "[">> \o lit \o <<"]", "]">> : lit \in StringLiterals }

\* an array between some prose and some more prose
ProseTexts ==
  { pre \o arr \o post :
      pre \in { <<>>, <<"x", " ">>, <<"x", QUOTE, " ">>, <<"]", " ">> },
      arr \in EmbeddedArrays,
      post \in { <<>>, <<" ", "x">>, <<"]">>, <<" ", "[", "]">>, <<QUOTE>> } }

ExtractorTexts == PlainTexts \cup FencedTexts \cup ProseTexts

(***************************************************************************)
(* What the agent (generator) can answer: a raw text holding a JSON array  *)
(* of metric dicts, a text without any array, a text whose array is not    *)
(* valid JSON, or an output that is not a string.                          *)
(***************************************************************************)
BaseNames == <<"Accuracy", "F1", "BLEU-4", "Recall">>

SourceLists == SeqsUpTo(SourcePool, MaxSources)

RECURSIVE TotalLen(_)
TotalLen(ss) == IF ss = <<>> THEN 0 ELSE Len(Head(ss)) + TotalLen(Tail(ss))

\* lists whose metrics have distinct names and valid fields and whose sources
\* vary, with at most MaxSources source entries in the whole text
SourceVariants ==
  UNION { { [i \in 1..n |-> MkMetric(BaseNames[i], 0, 1, d[i])] :
              d \in { e \in [1..n -> SourceLists] : TotalLen(e) <= MaxSources } } :
          n \in 0..MaxNumMetrics }

\* lists in which one metric varies in its name and its (min, max)
FieldVariants ==
  UNION { { [i \in 1..n |-> IF i = pos THEN MkMetric(name, mn, mx, <<SrcA>>)
                            ELSE MkMetric(BaseNames[i], 0, 1, <<SrcA>>)] :
              pos \in 1..n, name \in Names, mn \in MinVals, mx \in MaxVals } :
          n \in 1..MaxNumMetrics }

\* one-metric lists whose last source is cited twice in a row
DuplicateVariants ==
  { <<MkMetric(BaseNames[1], 0, 1, s \o <<x, x>>)>> :
      s \in SeqsUpTo(SourcePool, MaxSources - 1), x \in SourcePool }

\* one-metric lists with a source whose title does not validate
InvalidSourceVariants ==
  { <<MkMetric(BaseNames[1], 0, 1, srcs)>> :
      srcs \in { <<SrcT>>, <<SrcA, SrcT>>, <<SrcT, SrcA>> } }

GeneratedLists ==
  SourceVariants \cup FieldVariants \cup DuplicateVariants \cup InvalidSourceVariants

RawOutputs ==
  { [form |-> "array", items |-> l] : l \in GeneratedLists }
    \cup { [form |-> f, items |-> <<>>] : f \in { "prose", "malformed", "nonstr" } }

\* a few short outputs, one of each form
TerseOutputs ==
  { [form |-> "array", items |-> l] :
      l \in { <<>>, <<MkMetric("Accuracy", 0, 1, <<SrcA>>)>>,
              <<MkMetric("Accuracy", 0, 1, <<SrcC>>)>>,
              <<MkMetric("Accuracy", 0, 5, <<SrcA>>)>> } }
    \cup { [form |-> f, items |-> <<>>] : f \in { "prose", "malformed", "nonstr" } }

\* what agent_executor.invoke can return
AgentOutputs(mode) == IF mode = "terse" THEN TerseOutputs ELSE RawOutputs

\* metric dicts handed to Metric(...) on its own
CandidateSources == SeqsUpTo({ SrcA, SrcB, SrcC, SrcU, SrcT, SrcP }, MaxFieldSources)

CandidateMetrics ==
  { [metric |-> name, min |-> combo[1], max |-> combo[2], description |-> desc,
     relevance |-> "y", sources |-> srcs, search_queries |-> queries] :
      name \in { "Accuracy", " Accuracy", "F1!", "" },
      combo \in { <<0, 1>>, <<1, 5>>, <<0, 5>> },
      desc \in { "x", "" },
      srcs \in CandidateSources,
      queries \in { <<>>, <<"q">>, <<" ">>, <<" q", " ", "r">> } }

\* the labels handed to build_task_context
LabelRuns == { [ch |-> c, n |-> k] : c \in { "a", " ", "1", "\n" }, k \in { 1, 99, 100 } }
Labels == SeqsUpTo(LabelRuns, MaxRuns)
GoodLabel == << [ch |-> "a", n |-> 1], [ch |-> "a", n |-> 1] >>
NumMetricsArgs == { 0, 1, 50, 51 }
MinSourcesArgs == { 0, 1, 20, 21 }

\* build_task_context arguments: one label varies, the others are plain words
ContextArgs ==
  { [task_domain |-> IF pos = 1 THEN l ELSE GoodLabel,
     task_field |-> IF pos = 2 THEN l ELSE GoodLabel,
     task_type |-> IF pos = 3 THEN l ELSE GoodLabel,
     num_metrics |-> n, min_sources_per_metric |-> k] :
      pos \in 1..3, l \in Labels, n \in NumMetricsArgs, k \in MinSourcesArgs }

NoOutput == [form |-> "none", items |-> <<>>]
\* the agent call raised instead of returning an output
RaisedOutput == [form |-> "raised", items |-> <<>>]
\* no stand-alone extractor call is in progress
NoExtraction == [ok |-> FALSE, value |-> <<>>]
\* no stand-alone Metric(...) call is in progress
NoMetric == MkMetric("", 0, 1, <<>>)
NoValidation == [ok |-> FALSE, value |-> NoMetric]
\* no build_task_context call is in progress, or it raised
NoContext == [task_domain |-> <<>>, task_field |-> <<>>, task_type |-> <<>>,
              num_metrics |-> 0, min_sources_per_metric |-> 0]
NoError == [attempt |-> 0, kind |-> "none"]
\* no value: the run has not returned, or it raised
NoValue == [json |-> "none", items |-> <<>>]
\* a retry_request call that has not returned
NoReturn == [kind |-> "pending", body |-> ""]
NoOutcome == [kind |-> "running", value |-> NoValue, attempts |-> 0, cause |-> NoError]

(***************************************************************************)
(* State.                                                                  *)
(***************************************************************************)
VARIABLES
  inputs,            \* payload["original_inputs"], the TaskContext dump
  max_retries,       \* int(os.getenv("AGENT_MAX_RETRIES", "3"))
  use_structured,    \* USE_STRUCTURED_EXTRACTION
  agent,             \* which outputs the agent can produce: "any" or "terse"
  pc,                \* position of the pipeline
  attempt,           \* loop variable of _postprocess
  output,            \* the agent output being processed
  structured_ok,     \* local of _postprocess
  metrics_list,      \* local of _postprocess
  mi,                \* index of the metric being filtered (outer loop)
  si,                \* index of the source being judged (inner loop)
  filtered_sources,  \* local of _validate_and_filter_metrics
  filtered_metrics,  \* local of _validate_and_filter_metrics
  judgeLog,          \* judge queries of the current attempt, with the answers
  lastError,         \* the exception caught by line 340
  outcome,           \* how the run ended: value returned or exception raised
  genCalls,          \* number of agent_executor invocations
  lastGen,           \* the latest agent_executor call: its argument and its result
  sleeps,            \* number of time.sleep(0.5) calls
  raw_text,          \* argument of a stand-alone _extract_json_array_str call
  extracted,         \* what that call returned or raised
  ex_pc,             \* position of that call
  candidate,         \* argument of a stand-alone Metric(...) call
  validated,         \* the Metric that call built
  revalidated,       \* what Metric(...) makes of that Metric
  mv_pc,             \* position of that call
  ctx_args,          \* arguments of a build_task_context call
  ctx_result,        \* the dict it returned
  ctx_pc,            \* position of that call
  mm_combo,          \* the (min, max) pair given to both min/max checks
  guard_ok,          \* whether _assert_min_max_combo accepted the pair
  schema_ok,         \* whether Metric(...) accepted the pair
  mm_pc,             \* position of that comparison
  rq_url,            \* url argument of a retry_request call
  rq_retries,        \* its retries argument
  rq_attempt,        \* loop variable of retry_request
  rq_log,            \* what each GET of the call met, in order
  rq_slept,          \* the sleep_s of each time.sleep of the call
  rq_result,         \* what the call returned or raised
  rq_pc,             \* position of the call
  lg_queries,        \* QueryLogger.queries
  lg_dir,            \* the files of QueryLogger.log_dir: file name to lines
  lg_now,            \* datetime.datetime.now(), in whole seconds
  lg_calls           \* the log and save calls made so far

vars == <<inputs, max_retries, use_structured, agent, pc, attempt, output, structured_ok,
          metrics_list, mi, si, filtered_sources, filtered_metrics, judgeLog,
          lastError, outcome, genCalls, lastGen, sleeps, raw_text, extracted, ex_pc,
          candidate, validated, revalidated, mv_pc, ctx_args, ctx_result, ctx_pc,
          mm_combo, guard_ok, schema_ok, mm_pc, rq_url, rq_retries, rq_attempt,
          rq_log, rq_slept, rq_result, rq_pc, lg_queries, lg_dir, lg_now, lg_calls>>

\* the variables of the stand-alone extractor call
extractor == <<raw_text, extracted, ex_pc>>
\* the variables of the stand-alone Metric(...) call
fieldcall == <<candidate, validated, revalidated, mv_pc>>
\* the variables of the build_task_context call
contextcall == <<ctx_args, ctx_result, ctx_pc>>
\* the variables of the comparison of the two min/max checks
combocall == <<mm_combo, guard_ok, schema_ok, mm_pc>>
\* the variables of the retry_request call
retrycall == <<rq_url, rq_retries, rq_attempt, rq_log, rq_slept, rq_result, rq_pc>>
\* the variables of the query logger
loggercall == <<lg_queries, lg_dir, lg_now, lg_calls>>
\* the variables of the calls outside generate.py's pipeline and the schemas
aux == <<combocall, retrycall, loggercall>>
\* everything outside the pipeline
standalone == <<extractor, fieldcall, contextcall, aux>>

ExtractorIdle == raw_text = <<>> /\ extracted = NoExtraction /\ ex_pc = "idle"
FieldCallIdle ==
  /\ candidate = NoMetric
  /\ validated = NoMetric
  /\ revalidated = NoValidation
  /\ mv_pc = "idle"
ContextCallIdle == ctx_args = NoContext /\ ctx_result = NoContext /\ ctx_pc = "idle"
ComboIdle == mm_combo = <<0, 0>> /\ guard_ok = FALSE /\ schema_ok = FALSE /\ mm_pc = "idle"
RetryIdle ==
  /\ rq_url = ""
  /\ rq_retries = 0
  /\ rq_attempt = 0
  /\ rq_log = <<>>
  /\ rq_slept = <<>>
  /\ rq_result = NoReturn
  /\ rq_pc = "idle"
LoggerIdle == lg_queries = <<>> /\ lg_dir = <<>> /\ lg_now = 1 /\ lg_calls = <<>>
AuxIdle == ComboIdle /\ RetryIdle /\ LoggerIdle
config == <<inputs, max_retries, use_structured, agent>>
filterLocals == <<mi, si, filtered_sources, filtered_metrics>>

\* build_task_context(...) results explored
Inputs ==
  { [task_domain |-> "medicine", task_field |-> "gastroenterology",
     task_type |-> "diagnosis", num_metrics |-> n, min_sources_per_metric |-> k] :
       n \in 1..MaxNumMetrics, k \in 1..MaxMinSources }

\* the state before the pipeline is invoked, whatever the agent can produce
Idle ==
  /\ inputs \in Inputs
  /\ max_retries \in 0..MaxRetries
  /\ use_structured \in BOOLEAN
  /\ pc = "start"
  /\ attempt = 0
  /\ output = NoOutput
  /\ structured_ok = FALSE
  /\ metrics_list = <<>>
  /\ mi = 1
  /\ si = 1
  /\ filtered_sources = <<>>
  /\ filtered_metrics = <<>>
  /\ judgeLog = <<>>
  /\ lastError = NoError
  /\ outcome = NoOutcome
  /\ genCalls = 0
  /\ lastGen = [args |-> inputs, result |-> NoOutput]
  /\ sleeps = 0
  /\ raw_text = <<>>
  /\ extracted = NoExtraction
  /\ ex_pc = "idle"
  /\ FieldCallIdle
  /\ ContextCallIdle
  /\ AuxIdle

Init == Idle /\ agent = "any"

\* runs in which the agent only produces the short outputs
TerseInit == Idle /\ agent = "terse"

(***************************************************************************)
(* Actions.                                                                *)
(***************************************************************************)
\* a handler that keeps the first exception of the run instead of the latest
FailKeepFirst(kind) ==
  /\ pc' = "except"
  /\ lastError' = IF lastError.kind = "none"
                  THEN [attempt |-> attempt, kind |-> kind] ELSE lastError
  /\ mi' = 1
  /\ si' = 1
  /\ filtered_sources' = <<>>
  /\ filtered_metrics' = <<>>
  /\ judgeLog' = <<>>

\* an exception raised inside the try block: caught by line 340; the locals
\* of _validate_and_filter_metrics are gone, the judge log of the attempt ends
Fail(kind) ==
  /\ pc' = "except"
  /\ lastError' = [attempt |-> attempt, kind |-> kind]
  /\ mi' = 1
  /\ si' = 1
  /\ filtered_sources' = <<>>
  /\ filtered_metrics' = <<>>
  /\ judgeLog' = <<>>

\* entering _validate_and_filter_metrics
EnterFilter ==
  /\ pc' = "filter"
  /\ mi' = 1
  /\ si' = 1
  /\ filtered_sources' = <<>>
  /\ filtered_metrics' = <<>>
  /\ judgeLog' = <<>>

\* the pipeline dict runs agent_executor once, then _postprocess starts its
\* loop; with max_retries < 1 the loop body never runs and line 348 raises
InitialGenerate ==
  /\ pc = "start"
  /\ genCalls' = genCalls + 1
  /\ \E raw \in AgentOutputs(agent) :
       /\ output' = raw
       /\ lastGen' = [args |-> inputs, result |-> raw]
  /\ IF max_retries >= 1
     THEN /\ attempt' = 1
          /\ pc' = "extract"
          /\ outcome' = outcome
     ELSE /\ attempt' = attempt
          /\ pc' = "ended"
          /\ outcome' = [NoOutcome EXCEPT !.kind = "runtime_error"]
  /\ UNCHANGED <<standalone, config, structured_ok, metrics_list, filterLocals, judgeLog,
                 lastError, sleeps>>

\* the first agent_executor call raises: nothing catches it
InitialGenerateRaises ==
  /\ pc = "start"
  /\ genCalls' = genCalls + 1
  /\ lastGen' = [args |-> inputs, result |-> RaisedOutput]
  /\ pc' = "ended"
  /\ outcome' = [NoOutcome EXCEPT !.kind = "upstream_error"]
  /\ UNCHANGED <<standalone, config, attempt, output, structured_ok, metrics_list, filterLocals,
                 judgeLog, lastError, sleeps>>

\* lines 316-318: the agent output is not a string
RejectOutputType ==
  /\ pc = "extract"
  /\ output.form = "nonstr"
  /\ Fail("output_type")
  /\ metrics_list' = metrics_list
  /\ UNCHANGED <<standalone, config, attempt, output, structured_ok, outcome, genCalls, lastGen, sleeps>>

\* a structured extraction whose failure fails the attempt at once
StructuredExtractNoFallback ==
  /\ pc = "extract"
  /\ output.form # "nonstr"
  /\ use_structured
  /\ \E llm \in { "faithful", "raise" } :
       LET models == [i \in 1..Len(output.items) |-> MetricModel(output.items[i])]
           ok == llm = "faithful" /\ \A i \in 1..Len(models) : models[i].ok
       IN  IF ok
           THEN /\ metrics_list' =
                     NormalizeMetricsList([i \in 1..Len(models) |-> models[i].value])
                /\ structured_ok' = TRUE
                /\ EnterFilter
                /\ lastError' = lastError
           ELSE /\ metrics_list' = <<>>
                /\ structured_ok' = FALSE
                /\ Fail("structured")
  /\ UNCHANGED <<standalone, config, attempt, output, outcome, genCalls, lastGen, sleeps>>

\* lines 320-327: the structured LLM either maps the text into _StructWrapper,
\* whose Metric validators must all pass, or the call raises
StructuredExtract ==
  /\ pc = "extract"
  /\ output.form # "nonstr"
  /\ use_structured
  /\ \E llm \in { "faithful", "raise" } :
       LET models == [i \in 1..Len(output.items) |-> MetricModel(output.items[i])]
           ok == llm = "faithful" /\ \A i \in 1..Len(models) : models[i].ok
       IN  IF ok
           THEN /\ metrics_list' =
                     NormalizeMetricsList([i \in 1..Len(models) |-> models[i].value])
                /\ structured_ok' = TRUE
                /\ EnterFilter
           ELSE /\ metrics_list' = <<>>
                /\ structured_ok' = FALSE
                /\ pc' = "fallback"
                /\ UNCHANGED <<filterLocals, judgeLog>>
  /\ UNCHANGED <<standalone, config, attempt, output, lastError, outcome, genCalls, lastGen, sleeps>>

\* _extract_json_array_str followed by json.loads, on the forms of raw text
ExtractJsonArray(raw) ==
  IF raw.form = "array" THEN [error |-> "ok", list |-> raw.items]
  ELSE IF raw.form = "malformed" THEN [error |-> "json_decode", list |-> <<>>]
  ELSE [error |-> "extraction", list |-> <<>>]

\* lines 329-334: the bracket-scanning path
RawExtract ==
  /\ \/ pc = "fallback"
     \/ pc = "extract" /\ output.form # "nonstr" /\ ~use_structured
  /\ LET r == ExtractJsonArray(output)
     IN  IF r.error = "ok"
         THEN /\ metrics_list' = NormalizeMetricsList(r.list)
              /\ EnterFilter
              /\ lastError' = lastError
         ELSE /\ metrics_list' = <<>>
              /\ Fail(r.error)
  /\ structured_ok' = FALSE
  /\ UNCHANGED <<standalone, config, attempt, output, outcome, genCalls, lastGen, sleeps>>

\* an inner loop without the try/except of lines 168-175 around a judge that
\* lets the LLM exception through
JudgeSourcePropagates ==
  /\ pc = "filter"
  /\ mi <= Len(metrics_list)
  /\ si <= Len(metrics_list[mi].sources)
  /\ LET src == metrics_list[mi].sources[si]
     IN  \E response \in (IF SourceModel(src).ok THEN JudgeResponses ELSE { "NOT_ASKED" }) :
           IF response = "RAISE"
           THEN /\ pc' = "except"
                /\ lastError' = [attempt |-> attempt, kind |-> "judge"]
                /\ judgeLog' = Append(judgeLog, [metric |-> mi, source |-> src,
                                                 response |-> response])
                /\ mi' = 1
                /\ si' = 1
                /\ filtered_sources' = <<>>
                /\ filtered_metrics' = <<>>
                /\ UNCHANGED <<metrics_list>>
           ELSE /\ judgeLog' = IF response = "NOT_ASKED" THEN judgeLog
                               ELSE Append(judgeLog, [metric |-> mi, source |-> src,
                                                      response |-> response])
                /\ filtered_sources' =
                     IF response # "NOT_ASKED" /\ ValidateSourceWithLlm(response)
                     THEN Append(filtered_sources, src)
                     ELSE filtered_sources
                /\ si' = si + 1
                /\ UNCHANGED <<pc, metrics_list, mi, filtered_metrics, lastError>>
  /\ UNCHANGED <<standalone, config, attempt, output, structured_ok, outcome, genCalls,
                 lastGen, sleeps>>

\* an inner loop that walks the sources of a metric from the last to the first
JudgeSourceReversed ==
  /\ pc = "filter"
  /\ mi <= Len(metrics_list)
  /\ si <= Len(metrics_list[mi].sources)
  /\ LET src == metrics_list[mi].sources[Len(metrics_list[mi].sources) - si + 1]
     IN  \E response \in (IF SourceModel(src).ok THEN JudgeResponses ELSE { "NOT_ASKED" }) :
           /\ judgeLog' = IF response = "NOT_ASKED" THEN judgeLog
                          ELSE Append(judgeLog, [metric |-> mi, source |-> src,
                                                 response |-> response])
           /\ filtered_sources' =
                IF response # "NOT_ASKED" /\ ValidateSourceWithLlm(response)
                THEN Append(filtered_sources, src)
                ELSE filtered_sources
  /\ si' = si + 1
  /\ UNCHANGED <<standalone, config, pc, attempt, output, structured_ok, metrics_list, mi,
                 filtered_metrics, lastError, outcome, genCalls, lastGen, sleeps>>

\* lines 167-175: one pass of the inner loop; Source(**src) is built first, a
\* source that does not build raises before the judge is asked
JudgeSource ==
  /\ pc = "filter"
  /\ mi <= Len(metrics_list)
  /\ si <= Len(metrics_list[mi].sources)
  /\ LET src == metrics_list[mi].sources[si]
     IN  \E response \in (IF SourceModel(src).ok THEN JudgeResponses ELSE { "NOT_ASKED" }) :
           /\ judgeLog' = IF response = "NOT_ASKED" THEN judgeLog
                          ELSE Append(judgeLog, [metric |-> mi, source |-> src,
                                                 response |-> response])
           /\ filtered_sources' =
                IF response # "NOT_ASKED" /\ ValidateSourceWithLlm(response)
                THEN Append(filtered_sources, src)
                ELSE filtered_sources
  /\ si' = si + 1
  /\ UNCHANGED <<standalone, config, pc, attempt, output, structured_ok, metrics_list, mi,
                 filtered_metrics, lastError, outcome, genCalls, lastGen, sleeps>>

\* an outer loop that keeps a metric although none of its sources was accepted
CloseMetricKeepsEmpty ==
  /\ pc = "filter"
  /\ mi <= Len(metrics_list)
  /\ si > Len(metrics_list[mi].sources)
  /\ metrics_list' = [metrics_list EXCEPT ![mi].sources = filtered_sources]
  /\ filtered_metrics' = Append(filtered_metrics, metrics_list'[mi])
  /\ mi' = mi + 1
  /\ si' = 1
  /\ filtered_sources' = <<>>
  /\ UNCHANGED <<standalone, config, pc, attempt, output, structured_ok, judgeLog, lastError,
                 outcome, genCalls, lastGen, sleeps>>

\* an outer loop that puts each kept metric in front of the earlier ones
CloseMetricPrepends ==
  /\ pc = "filter"
  /\ mi <= Len(metrics_list)
  /\ si > Len(metrics_list[mi].sources)
  /\ IF filtered_sources # <<>>
     THEN /\ metrics_list' = [metrics_list EXCEPT ![mi].sources = filtered_sources]
          /\ filtered_metrics' = <<metrics_list'[mi]>> \o filtered_metrics
     ELSE UNCHANGED <<metrics_list, filtered_metrics>>
  /\ mi' = mi + 1
  /\ si' = 1
  /\ filtered_sources' = <<>>
  /\ UNCHANGED <<standalone, config, pc, attempt, output, structured_ok, judgeLog, lastError,
                 outcome, genCalls, lastGen, sleeps>>

\* lines 176-178: the end of one pass of the outer loop
CloseMetric ==
  /\ pc = "filter"
  /\ mi <= Len(metrics_list)
  /\ si > Len(metrics_list[mi].sources)
  /\ IF filtered_sources # <<>>
     THEN /\ metrics_list' = [metrics_list EXCEPT ![mi].sources = filtered_sources]
          /\ filtered_metrics' = Append(filtered_metrics, metrics_list'[mi])
     ELSE UNCHANGED <<metrics_list, filtered_metrics>>
  /\ mi' = mi + 1
  /\ si' = 1
  /\ filtered_sources' = <<>>
  /\ UNCHANGED <<standalone, config, pc, attempt, output, structured_ok, judgeLog, lastError,
                 outcome, genCalls, lastGen, sleeps>>

\* a return straight after the relevance filter, without lines 178-185
ReturnBatchUnvalidated ==
  /\ pc = "filter"
  /\ mi > Len(metrics_list)
  /\ JsonSerializable(filtered_metrics)
  /\ outcome' = [kind |-> "returned", value |-> JsonDumps(filtered_metrics),
                 attempts |-> 0, cause |-> NoError]
  /\ pc' = "ended"
  /\ mi' = 1
  /\ si' = 1
  /\ filtered_sources' = <<>>
  /\ filtered_metrics' = <<>>
  /\ UNCHANGED <<standalone, config, attempt, output, structured_ok, metrics_list, judgeLog,
                 lastError, genCalls, lastGen, sleeps>>

\* lines 180-187 and 338: every check passes and the JSON text is returned
ReturnBatch ==
  /\ pc = "filter"
  /\ mi > Len(metrics_list)
  /\ ValidateOutcome(filtered_metrics, inputs) = "ok"
  /\ outcome' = [kind |-> "returned", value |-> JsonDumps(filtered_metrics),
                 attempts |-> 0, cause |-> NoError]
  /\ pc' = "ended"
  /\ mi' = 1
  /\ si' = 1
  /\ filtered_sources' = <<>>
  /\ filtered_metrics' = <<>>
  /\ UNCHANGED <<standalone, config, attempt, output, structured_ok, metrics_list, judgeLog,
                 lastError, genCalls, lastGen, sleeps>>

\* lines 180-187 and 338: a check raises
ValidationFails ==
  /\ pc = "filter"
  /\ mi > Len(metrics_list)
  /\ ValidateOutcome(filtered_metrics, inputs) # "ok"
  /\ Fail(ValidateOutcome(filtered_metrics, inputs))
  /\ UNCHANGED <<standalone, config, attempt, output, structured_ok, metrics_list, outcome,
                 genCalls, lastGen, sleeps>>

\* a budget test that is off by one
FatalOffByOne ==
  /\ pc = "except"
  /\ attempt = max_retries + 1
  /\ outcome' = [kind |-> "fatal", value |-> NoValue,
                 attempts |-> max_retries, cause |-> lastError]
  /\ pc' = "ended"
  /\ UNCHANGED <<standalone, config, attempt, output, structured_ok, metrics_list, filterLocals,
                 judgeLog, lastError, genCalls, lastGen, sleeps>>

\* lines 341-344: the last attempt failed
Fatal ==
  /\ pc = "except"
  /\ attempt = max_retries
  /\ outcome' = [kind |-> "fatal", value |-> NoValue,
                 attempts |-> max_retries, cause |-> lastError]
  /\ pc' = "ended"
  /\ UNCHANGED <<standalone, config, attempt, output, structured_ok, metrics_list, filterLocals,
                 judgeLog, lastError, genCalls, lastGen, sleeps>>

\* a retry that sleeps and then runs the next attempt on the text it has
BackoffRetrySameText ==
  /\ pc = "except"
  /\ attempt # max_retries
  /\ sleeps' = sleeps + 1
  /\ attempt' = attempt + 1
  /\ pc' = "extract"
  /\ UNCHANGED <<standalone, config, output, structured_ok, metrics_list, filterLocals,
                 judgeLog, lastError, outcome, genCalls, lastGen>>

\* a backoff that does not look at the attempt number
BackoffUnbounded ==
  /\ pc = "except"
  /\ attempt <= max_retries
  /\ sleeps' = sleeps + 1
  /\ pc' = "regenerate"
  /\ UNCHANGED <<standalone, config, attempt, output, structured_ok, metrics_list, filterLocals,
                 judgeLog, lastError, outcome, genCalls, lastGen>>

\* line 345: time.sleep(0.5)
Backoff ==
  /\ pc = "except"
  /\ attempt # max_retries
  /\ sleeps' = sleeps + 1
  /\ pc' = "regenerate"
  /\ UNCHANGED <<standalone, config, attempt, output, structured_ok, metrics_list, filterLocals,
                 judgeLog, lastError, outcome, genCalls, lastGen>>

\* a regeneration whose result is not assigned to output
RegenerateStale ==
  /\ pc = "regenerate"
  /\ genCalls' = genCalls + 1
  /\ \E raw \in AgentOutputs(agent) : lastGen' = [args |-> inputs, result |-> raw]
  /\ attempt' = attempt + 1
  /\ pc' = "extract"
  /\ UNCHANGED <<standalone, config, output, structured_ok, metrics_list, filterLocals,
                 judgeLog, lastError, outcome, sleeps>>

\* a regeneration that asks for one metric only
RegeneratePatched ==
  /\ pc = "regenerate"
  /\ genCalls' = genCalls + 1
  /\ \E raw \in AgentOutputs(agent) :
       /\ output' = raw
       /\ lastGen' = [args |-> [inputs EXCEPT !.num_metrics = 1], result |-> raw]
  /\ attempt' = attempt + 1
  /\ pc' = "extract"
  /\ UNCHANGED <<standalone, config, structured_ok, metrics_list, filterLocals, judgeLog,
                 lastError, outcome, sleeps>>

\* line 346 and the next iteration of the loop
Regenerate ==
  /\ pc = "regenerate"
  /\ genCalls' = genCalls + 1
  /\ \E raw \in AgentOutputs(agent) :
       /\ output' = raw
       /\ lastGen' = [args |-> inputs, result |-> raw]
  /\ attempt' = attempt + 1
  /\ pc' = "extract"
  /\ UNCHANGED <<standalone, config, structured_ok, metrics_list, filterLocals, judgeLog,
                 lastError, outcome, sleeps>>

\* line 346 raises inside the except block: the exception leaves _postprocess
RegenerateRaises ==
  /\ pc = "regenerate"
  /\ genCalls' = genCalls + 1
  /\ lastGen' = [args |-> inputs, result |-> RaisedOutput]
  /\ pc' = "ended"
  /\ outcome' = [NoOutcome EXCEPT !.kind = "upstream_error"]
  /\ UNCHANGED <<standalone, config, attempt, output, structured_ok, metrics_list, filterLocals,
                 judgeLog, lastError, sleeps>>

Next ==
  \/ InitialGenerate
  \/ InitialGenerateRaises
  \/ RejectOutputType
  \/ StructuredExtract
  \/ RawExtract
  \/ JudgeSource
  \/ CloseMetric
  \/ ReturnBatch
  \/ ValidationFails
  \/ Fatal
  \/ Backoff
  \/ Regenerate
  \/ RegenerateRaises

Spec == Init /\ [][Next]_vars

(***************************************************************************)
(* A stand-alone call of _extract_json_array_str on any text.              *)
(***************************************************************************)
\* the pipeline itself is not running
Parked ==
  /\ inputs = [task_domain |-> "medicine", task_field |-> "gastroenterology",
               task_type |-> "diagnosis", num_metrics |-> 1,
               min_sources_per_metric |-> 1]
  /\ max_retries = 0
  /\ use_structured = FALSE
  /\ agent = "any"
  /\ pc = "parked"
  /\ attempt = 0
  /\ output = NoOutput
  /\ structured_ok = FALSE
  /\ metrics_list = <<>>
  /\ mi = 1
  /\ si = 1
  /\ filtered_sources = <<>>
  /\ filtered_metrics = <<>>
  /\ judgeLog = <<>>
  /\ lastError = NoError
  /\ outcome = NoOutcome
  /\ genCalls = 0
  /\ lastGen = [args |-> inputs, result |-> NoOutput]
  /\ sleeps = 0

pipeline == <<config, pc, attempt, output, structured_ok, metrics_list, filterLocals,
              judgeLog, lastError, outcome, genCalls, lastGen, sleeps>>

ExtractorInit ==
  /\ Parked
  /\ raw_text \in ExtractorTexts
  /\ extracted = NoExtraction
  /\ ex_pc = "call"
  /\ FieldCallIdle
  /\ ContextCallIdle
  /\ AuxIdle

\* the call returns the array string
ExtractReturns ==
  /\ ex_pc = "call"
  /\ ExtractJsonArrayStr(raw_text).ok
  /\ extracted' = ExtractJsonArrayStr(raw_text)
  /\ ex_pc' = "returned"
  /\ UNCHANGED <<raw_text, pipeline, fieldcall, contextcall, aux>>

\* line 101: the call raises ValueError
ExtractRaises ==
  /\ ex_pc = "call"
  /\ ~ExtractJsonArrayStr(raw_text).ok
  /\ extracted' = ExtractJsonArrayStr(raw_text)
  /\ ex_pc' = "raised"
  /\ UNCHANGED <<raw_text, pipeline, fieldcall, contextcall, aux>>

ExtractorNext == ExtractReturns \/ ExtractRaises

ExtractorSpec == ExtractorInit /\ [][ExtractorNext]_vars

(***************************************************************************)
(* A stand-alone Metric(...) call on any metric dict, and a second call on *)
(* the Metric it built.                                                    *)
(***************************************************************************)
FieldInit ==
  /\ Parked
  /\ ExtractorIdle
  /\ ContextCallIdle
  /\ AuxIdle
  /\ candidate \in CandidateMetrics
  /\ validated = NoMetric
  /\ revalidated = NoValidation
  /\ mv_pc = "call"

\* every validator passes: the Metric is built
MetricValidates ==
  /\ mv_pc = "call"
  /\ MetricModel(candidate).ok
  /\ validated' = MetricModel(candidate).value
  /\ mv_pc' = "validated"
  /\ UNCHANGED <<candidate, revalidated, pipeline, extractor, contextcall, aux>>

\* a validator raises
MetricRaises ==
  /\ mv_pc = "call"
  /\ ~MetricModel(candidate).ok
  /\ mv_pc' = "raised"
  /\ UNCHANGED <<candidate, validated, revalidated, pipeline, extractor, contextcall, aux>>

\* the validators run again on the Metric that was built
MetricRevalidates ==
  /\ mv_pc = "validated"
  /\ revalidated' = MetricModel(validated)
  /\ mv_pc' = "revalidated"
  /\ UNCHANGED <<candidate, validated, pipeline, extractor, contextcall, aux>>

FieldNext == MetricValidates \/ MetricRaises \/ MetricRevalidates

FieldSpec == FieldInit /\ [][FieldNext]_vars

(***************************************************************************)
(* A build_task_context call on any arguments.                             *)
(***************************************************************************)
ContextInit ==
  /\ Parked
  /\ ExtractorIdle
  /\ FieldCallIdle
  /\ AuxIdle
  /\ ctx_args \in ContextArgs
  /\ ctx_result = NoContext
  /\ ctx_pc = "call"

\* lines 372-379: TaskContext is built and dumped
ContextReturns ==
  /\ ctx_pc = "call"
  /\ TaskContextModel(ctx_args).ok
  /\ ctx_result' = TaskContextModel(ctx_args).value
  /\ ctx_pc' = "returned"
  /\ UNCHANGED <<ctx_args, pipeline, extractor, fieldcall, aux>>

\* lines 372-378: TaskContext(...) raises
ContextRaises ==
  /\ ctx_pc = "call"
  /\ ~TaskContextModel(ctx_args).ok
  /\ ctx_pc' = "raised"
  /\ UNCHANGED <<ctx_args, ctx_result, pipeline, extractor, fieldcall, aux>>

ContextNext == ContextReturns \/ ContextRaises

ContextSpec == ContextInit /\ [][ContextNext]_vars

(***************************************************************************)
(* Both min/max checks on the same pair of integers: the explicit guard of *)
(* generate.py, then Metric(...) on a dict whose other fields are valid.   *)
(***************************************************************************)
\* the integers tried for min and for max
ComboValues == (-1)..MaxComboValue

\* a metric dict that is valid apart from, possibly, its min and max
ComboMetric(pair) == MkMetric("Accuracy", pair[1], pair[2], <<SrcA>>)

ComboInit ==
  /\ Parked
  /\ ExtractorIdle
  /\ FieldCallIdle
  /\ ContextCallIdle
  /\ RetryIdle
  /\ LoggerIdle
  /\ mm_combo \in ComboValues \X ComboValues
  /\ guard_ok = FALSE
  /\ schema_ok = FALSE
  /\ mm_pc = "guard"

\* _assert_min_max_combo returns: the pair is in the set of line 148
GuardAccepts ==
  /\ mm_pc = "guard"
  /\ AssertMinMaxCombo(<<ComboMetric(mm_combo)>>)
  /\ guard_ok' = TRUE
  /\ mm_pc' = "schema"
  /\ UNCHANGED <<mm_combo, schema_ok, pipeline, extractor, fieldcall, contextcall,
                 retrycall, loggercall>>

\* lines 149-152: _assert_min_max_combo raises ValueError
GuardRaises ==
  /\ mm_pc = "guard"
  /\ ~AssertMinMaxCombo(<<ComboMetric(mm_combo)>>)
  /\ guard_ok' = FALSE
  /\ mm_pc' = "schema"
  /\ UNCHANGED <<mm_combo, schema_ok, pipeline, extractor, fieldcall, contextcall,
                 retrycall, loggercall>>

\* Metric(**m) builds the Metric
SchemaAccepts ==
  /\ mm_pc = "schema"
  /\ MetricModel(ComboMetric(mm_combo)).ok
  /\ schema_ok' = TRUE
  /\ mm_pc' = "done"
  /\ UNCHANGED <<mm_combo, guard_ok, pipeline, extractor, fieldcall, contextcall,
                 retrycall, loggercall>>

\* Metric(**m) raises ValidationError
SchemaRaises ==
  /\ mm_pc = "schema"
  /\ ~MetricModel(ComboMetric(mm_combo)).ok
  /\ schema_ok' = FALSE
  /\ mm_pc' = "done"
  /\ UNCHANGED <<mm_combo, guard_ok, pipeline, extractor, fieldcall, contextcall,
                 retrycall, loggercall>>

ComboNext == GuardAccepts \/ GuardRaises \/ SchemaAccepts \/ SchemaRaises

ComboSpec == ComboInit /\ [][ComboNext]_vars

(***************************************************************************)
(* utils/http_retry.py: one retry_request call. Every caller passes        *)
(* retries >= 0 and the default backoff of 2.0 seconds, so the loop runs   *)
(* at least once and line 57 is not reached.                               *)
(***************************************************************************)
\* the backoff argument
backoff == 2

\* line 45: the status codes that are retried
RetriableCodes == { 429, 500, 502, 503, 504 }

\* the status codes of the HTTPErrors met
HttpErrorCodes == RetriableCodes \cup { 400, 404, 501 }

\* the urls tried: one that urllib.request.Request accepts, one it rejects
\* with ValueError
RequestUrls == { "https://api.openalex.org/works", "works" }
UrlAccepted(url) == url = "https://api.openalex.org/works"

\* what a GET can meet: a response that is read, an HTTPError, or any other
\* exception of urlopen or read (URLError, timeout, IncompleteRead)
GetOutcomes ==
  { [kind |-> "ok", code |-> 200] } \cup
  { [kind |-> "http_error", code |-> c] : c \in HttpErrorCodes } \cup
  { [kind |-> "error", code |-> 0] }

RECURSIVE Pow2(_)
Pow2(n) == IF n = 0 THEN 1 ELSE 2 * Pow2(n - 1)

RetryInit ==
  /\ Parked
  /\ ExtractorIdle
  /\ FieldCallIdle
  /\ ContextCallIdle
  /\ ComboIdle
  /\ LoggerIdle
  /\ rq_url \in RequestUrls
  /\ rq_retries \in 0..MaxHttpRetries
  /\ rq_attempt = 0
  /\ rq_log = <<>>
  /\ rq_slept = <<>>
  /\ rq_result = NoReturn
  /\ rq_pc = "loop"

\* line 41 raises before any request is sent; line 54 catches it
RequestRejected ==
  /\ rq_pc = "loop"
  /\ rq_attempt <= rq_retries
  /\ ~UrlAccepted(rq_url)
  /\ rq_result' = [kind |-> "none", body |-> ""]
  /\ rq_pc' = "returned"
  /\ UNCHANGED <<rq_url, rq_retries, rq_attempt, rq_log, rq_slept, pipeline, extractor,
                 fieldcall, contextcall, combocall, loggercall>>

\* lines 42-43: the GET is answered and the body is returned
GetSucceeds ==
  /\ rq_pc = "loop"
  /\ rq_attempt <= rq_retries
  /\ UrlAccepted(rq_url)
  /\ rq_log' = Append(rq_log, [kind |-> "ok", code |-> 200])
  /\ rq_result' = [kind |-> "body", body |-> "text"]
  /\ rq_pc' = "returned"
  /\ UNCHANGED <<rq_url, rq_retries, rq_attempt, rq_slept, pipeline, extractor,
                 fieldcall, contextcall, combocall, loggercall>>

\* lines 44-51: a retriable HTTPError with retries left: sleep and go round
GetRetried ==
  /\ rq_pc = "loop"
  /\ rq_attempt <= rq_retries
  /\ UrlAccepted(rq_url)
  /\ \E e \in GetOutcomes :
       /\ e.kind = "http_error"
       /\ e.code \in RetriableCodes /\ rq_attempt < rq_retries
       /\ rq_log' = Append(rq_log, e)
  /\ rq_slept' = Append(rq_slept, backoff * Pow2(rq_attempt))
  /\ rq_attempt' = rq_attempt + 1
  /\ UNCHANGED <<rq_url, rq_retries, rq_result, rq_pc, pipeline, extractor,
                 fieldcall, contextcall, combocall, loggercall>>

\* lines 44-45, 52-53: any other HTTPError, or no retry left: None
GetGivesUp ==
  /\ rq_pc = "loop"
  /\ rq_attempt <= rq_retries
  /\ UrlAccepted(rq_url)
  /\ \E e \in GetOutcomes :
       /\ e.kind = "http_error"
       /\ ~(e.code \in RetriableCodes /\ rq_attempt < rq_retries)
       /\ rq_log' = Append(rq_log, e)
  /\ rq_result' = [kind |-> "none", body |-> ""]
  /\ rq_pc' = "returned"
  /\ UNCHANGED <<rq_url, rq_retries, rq_attempt, rq_slept, pipeline, extractor,
                 fieldcall, contextcall, combocall, loggercall>>

\* a GET whose exception reaches the caller
GetFailsUncaught ==
  /\ rq_pc = "loop"
  /\ rq_attempt <= rq_retries
  /\ UrlAccepted(rq_url)
  /\ rq_log' = Append(rq_log, [kind |-> "error", code |-> 0])
  /\ rq_result' = [kind |-> "raised", body |-> ""]
  /\ rq_pc' = "raised"
  /\ UNCHANGED <<rq_url, rq_retries, rq_attempt, rq_slept, pipeline, extractor,
                 fieldcall, contextcall, combocall, loggercall>>

\* lines 54-56: any other exception of the GET: None
GetFails ==
  /\ rq_pc = "loop"
  /\ rq_attempt <= rq_retries
  /\ UrlAccepted(rq_url)
  /\ rq_log' = Append(rq_log, [kind |-> "error", code |-> 0])
  /\ rq_result' = [kind |-> "none", body |-> ""]
  /\ rq_pc' = "returned"
  /\ UNCHANGED <<rq_url, rq_retries, rq_attempt, rq_slept, pipeline, extractor,
                 fieldcall, contextcall, combocall, loggercall>>

RetryNext == RequestRejected \/ GetSucceeds \/ GetRetried \/ GetGivesUp \/ GetFails

RetrySpec == RetryInit /\ [][RetryNext]_vars

(***************************************************************************)
(* logs/tool_query_logger.py: log and save calls on one QueryLogger, with  *)
(* the clock that names the files.                                         *)
(***************************************************************************)
\* the tools that log and the queries they pass
ToolNames == { "ArXiv", "PubMed" }
LoggedQueries == { "q", " q" }

\* line 38: f"{tool_name}: {query.strip()}"
LogEntry(tool_name, query) == <<tool_name, ": ", Strip(query)>>

\* line 50-51: the file name is the time of the save, to the second
FileName(now) == now

\* lines 53-55: open(filename, "w") replaces the file of that name
WriteFile(dir, filename, lines) ==
  [f \in DOMAIN dir \cup { filename } |-> IF f = filename THEN lines ELSE dir[f]]

LoggerInit ==
  /\ Parked
  /\ ExtractorIdle
  /\ FieldCallIdle
  /\ ContextCallIdle
  /\ ComboIdle
  /\ RetryIdle
  /\ lg_queries = <<>>
  /\ lg_dir = <<>>
  /\ lg_now = 1
  /\ lg_calls = <<>>

\* QueryLogger.log
Log ==
  /\ Len(lg_calls) < MaxLoggerCalls
  /\ \E tool_name \in ToolNames, query \in LoggedQueries :
       /\ lg_queries' = Append(lg_queries, LogEntry(tool_name, query))
       /\ lg_calls' = Append(lg_calls, [op |-> "log", entry |-> LogEntry(tool_name, query)])
  /\ UNCHANGED <<lg_dir, lg_now, pipeline, extractor, fieldcall, contextcall, combocall,
                 retrycall>>

\* QueryLogger.save, lines 46-47: nothing is pending
SaveReturnsEarly ==
  /\ Len(lg_calls) < MaxLoggerCalls
  /\ lg_queries = <<>>
  /\ lg_calls' = Append(lg_calls, [op |-> "save", entry |-> <<>>])
  /\ UNCHANGED <<lg_queries, lg_dir, lg_now, pipeline, extractor, fieldcall, contextcall,
                 combocall, retrycall>>

\* QueryLogger.save, lines 49-57: the pending entries are written and cleared
Save ==
  /\ Len(lg_calls) < MaxLoggerCalls
  /\ lg_queries # <<>>
  /\ lg_dir' = WriteFile(lg_dir, FileName(lg_now), lg_queries)
  /\ lg_queries' = <<>>
  /\ lg_calls' = Append(lg_calls, [op |-> "save", entry |-> <<>>])
  /\ UNCHANGED <<lg_now, pipeline, extractor, fieldcall, contextcall, combocall, retrycall>>

\* line 50: datetime.datetime.now() has moved on to the next second
Tick ==
  /\ lg_now < MaxSecond
  /\ lg_now' = lg_now + 1
  /\ UNCHANGED <<lg_queries, lg_dir, lg_calls, pipeline, extractor, fieldcall, contextcall,
                 combocall, retrycall>>

LoggerNext == Log \/ SaveReturnsEarly \/ Save \/ Tick

LoggerSpec == LoggerInit /\ [][LoggerNext]_vars

\* the pipeline is single-threaded and blocking: as long as every external
\* call returns or raises, the step that is enabled is eventually taken
FairSpec == TerseInit /\ [][Next]_vars /\ WF_vars(Next)

(***************************************************************************)
(* Properties.                                                             *)
(***************************************************************************)
Returned == pc = "ended" /\ outcome.kind = "returned"
ReturnedMetrics == outcome.value.items

\* the candidate batch has left the relevance filter and is about to be validated
AtValidation == pc = "filter" /\ mi > Len(metrics_list)

Affirmative(response) == response \notin { "no", "RAISE" }

RECURSIVE Flatten(_)
Flatten(ss) == IF ss = <<>> THEN <<>> ELSE Head(ss) \o Flatten(Tail(ss))

AllSources(ms) == Flatten([i \in 1..Len(ms) |-> ms[i].sources])

\* C1: a returned metrics list has exactly num_metrics entries, and a candidate
\* batch whose size after relevance filtering differs from num_metrics fails
\* the attempt instead of being returned
C1_ExactCount ==
  [][ /\ (Returned' => Len(ReturnedMetrics') = inputs.num_metrics)
      /\ (AtValidation /\ Len(filtered_metrics) # inputs.num_metrics => pc' = "except")
    ]_vars

\* two candidates were extracted for two requested metrics and the batch
\* failed the count check: the filter dropped a metric
C1_Witness ==
  /\ pc = "except"
  /\ lastError.kind = "batch_count"
  /\ inputs.num_metrics = 2
  /\ Len(metrics_list) = 2

\* C2 (as claimed): every source of a returned batch is from a trusted domain
C2_OnlyTrustedReturned ==
  Returned => \A i \in 1..Len(ReturnedMetrics) :
                \A k \in 1..Len(ReturnedMetrics[i].sources) :
                   IsTrusted(ReturnedMetrics[i].sources[k])

\* C3: the sources of a returned batch are exactly the sources that got an
\* affirmative judge answer in the attempt that returned, in judging order
C3_OnlyJudgedAffirmative ==
  Returned =>
    AllSources(ReturnedMetrics) =
      LET yes == SelectSeq(judgeLog, LAMBDA e : Affirmative(e.response))
      IN  [i \in 1..Len(yes) |-> yes[i].source]

\* a batch was returned in an attempt in which the judge also said no or raised
C3_Witness ==
  /\ Returned
  /\ \E i \in 1..Len(judgeLog) : judgeLog[i].response = "RAISE"
  /\ \E i \in 1..Len(judgeLog) : judgeLog[i].response = "no"

C5_DistinctNames ==
  [][ /\ (Returned' =>
            \A i, j \in 1..Len(ReturnedMetrics') :
               i # j => ReturnedMetrics'[i].metric # ReturnedMetrics'[j].metric)
      /\ (/\ AtValidation
          /\ \E i, j \in 1..Len(filtered_metrics) :
                i # j /\ filtered_metrics[i].metric = filtered_metrics[j].metric
          => pc' = "except")
    ]_vars

\* an attempt failed on the duplicate-name check
C5_Witness ==
  /\ pc = "except"
  /\ lastError.kind = "batch_duplicate_name"
  /\ \E i, j \in 1..Len(metrics_list) :
        i # j /\ metrics_list[i].metric = metrics_list[j].metric

\* C6 (as claimed): no returned metric has two sources with the same
\* (title, url) pair
C6_NoDuplicateSourceReturned ==
  Returned =>
    \A i \in 1..Len(ReturnedMetrics) :
       \A k, l \in 1..Len(ReturnedMetrics[i].sources) :
          k # l => ReturnedMetrics[i].sources[k] # ReturnedMetrics[i].sources[l]

\* C7: Metric validation rejects every generated record whose (min, max) is
\* neither (0,1) nor (1,5), and no returned metric has such a pair
C7_MinMaxCombo ==
  /\ \A i \in 1..Len(output.items) :
        <<output.items[i].min, output.items[i].max>> \notin { <<0, 1>>, <<1, 5>> }
          => ~MetricModel(output.items[i]).ok
  /\ Returned =>
       \A i \in 1..Len(ReturnedMetrics) :
          <<ReturnedMetrics[i].min, ReturnedMetrics[i].max>> \in { <<0, 1>>, <<1, 5>> }

\* an attempt whose candidate had the pair (0,5) failed
C7_Witness ==
  /\ pc = "except"
  /\ lastError.kind = "min_max"
  /\ \E i \in 1..Len(metrics_list) : metrics_list[i].min = 0 /\ metrics_list[i].max = 5

\* C8 (as claimed): the returned value is an object with a 'constraints' part
\* equal to the request and a 'metrics' part holding the metric list
C8_ResultHasConstraintsAndMetrics ==
  Returned =>
    /\ outcome.value.json = "object"
    /\ outcome.value.constraints.num_metrics = inputs.num_metrics
    /\ outcome.value.constraints.min_sources_per_metric = inputs.min_sources_per_metric
    /\ Len(outcome.value.metrics) = inputs.num_metrics

\* C9: with M >= 1 at most M attempts are processed and the generator is
\* invoked once per attempt, never after the M-th attempt failed
C9_BoundedAttempts ==
  max_retries >= 1 =>
    /\ attempt <= max_retries
    /\ genCalls <= max_retries
    /\ pc \in { "extract", "fallback", "filter", "except", "regenerate" }
         => genCalls = attempt
    /\ pc = "regenerate" => attempt < max_retries
    /\ outcome.kind \in { "fatal", "returned" } => genCalls = attempt
    /\ sleeps < max_retries

\* the run used its whole budget of two attempts
C9_Witness ==
  /\ outcome.kind = "fatal"
  /\ max_retries = 2
  /\ genCalls = 2
  /\ attempt = 2

\* C10: when the M-th attempt has failed the run ends with one fatal error
\* that states M and carries the error of the M-th attempt; nothing is returned
C10_FatalCarriesLastError ==
  (pc = "ended" /\ max_retries >= 1 /\ attempt = max_retries /\ outcome.kind # "returned") =>
    /\ outcome.kind = "fatal"
    /\ outcome.attempts = max_retries
    /\ outcome.cause = lastError
    /\ outcome.cause.attempt = max_retries
    /\ outcome.value = NoValue

\* a run of two attempts ended fatally on a batch error of the second attempt
C10_Witness ==
  /\ pc = "ended"
  /\ outcome.kind = "fatal"
  /\ max_retries = 2
  /\ outcome.cause.attempt = 2
  /\ outcome.cause.kind = "batch_count"

\* C11 (as claimed): generator failures are absorbed by the retry loop, so a
\* run with M >= 1 that does not return ends with the budget-exhaustion error
\* after M attempts
C11_UpstreamErrorConsumesAttempt ==
  (pc = "ended" /\ max_retries >= 1 /\ outcome.kind # "returned") =>
    /\ outcome.kind = "fatal"
    /\ outcome.attempts = max_retries
    /\ attempt = max_retries

\* C12: after a failed attempt that is not the last one the next step is the
\* backoff sleep, the step after it the generator call, and extraction then
\* starts on the text that call returned with no local of the failed attempt
C12_BackoffThenRegenerateThenExtract ==
  [][ /\ (pc = "except" /\ attempt < max_retries =>
            /\ pc' = "regenerate"
            /\ sleeps' = sleeps + 1
            /\ genCalls' = genCalls
            /\ attempt' = attempt)
      /\ (pc = "regenerate" =>
            /\ genCalls' = genCalls + 1
            /\ sleeps' = sleeps
            /\ \/ /\ pc' = "extract"
                  /\ attempt' = attempt + 1
                  /\ lastGen'.result \in RawOutputs
               \/ /\ pc' = "ended"
                  /\ lastGen'.result = RaisedOutput)
      /\ (pc' = "extract" =>
            /\ output' = lastGen'.result
            /\ filtered_sources' = <<>>
            /\ filtered_metrics' = <<>>
            /\ judgeLog' = <<>>
            /\ mi' = 1 /\ si' = 1)
    ]_vars

\* the second attempt starts extraction after one sleep and one regeneration
C12_Witness ==
  /\ pc = "extract"
  /\ attempt = 2
  /\ sleeps = 1
  /\ genCalls = 2
  /\ lastError = [attempt |-> 1, kind |-> "extraction"]

\* sources of metric i of the candidate list that the judge accepted, in order
AcceptedOf(log, i) ==
  LET sel == SelectSeq(log, LAMBDA e : e.metric = i /\ Affirmative(e.response))
  IN  [k \in 1..Len(sel) |-> sel[k].source]

\* the batch that the records of a raw text and the judge answers determine
ExpectedBatch(items, log) ==
  LET kept == [i \in 1..Len(items) |-> [items[i] EXCEPT !.sources = AcceptedOf(log, i)]]
  IN  SelectSeq(kept, LAMBDA m : m.sources # <<>>)

\* C13: a returned batch is determined by the raw text of the latest generator
\* call and the judge answers of the returning attempt alone
C13_OnlyFromCurrentRawText ==
  Returned =>
    /\ \A j \in 1..Len(judgeLog) :
          /\ judgeLog[j].metric \in 1..Len(lastGen.result.items)
          /\ \E k \in 1..Len(lastGen.result.items[judgeLog[j].metric].sources) :
                lastGen.result.items[judgeLog[j].metric].sources[k] = judgeLog[j].source
    /\ ReturnedMetrics = ExpectedBatch(lastGen.result.items, judgeLog)

\* a batch was returned by the second attempt, after the first one failed late
C13_Witness ==
  /\ Returned
  /\ attempt = 2
  /\ lastError = [attempt |-> 1, kind |-> "batch_min_sources"]

\* C14: the request is never modified and every generator call gets it
C14_RequestUnchanged ==
  [][ /\ inputs' = inputs
      /\ (genCalls' # genCalls => lastGen'.args = inputs)
    ]_vars

\* a regeneration was made for a request of two metrics
C14_Witness ==
  /\ genCalls = 2
  /\ pc = "filter"
  /\ inputs.num_metrics = 2
  /\ lastGen.args = inputs

\* C15: every run ends
C15_Terminates == <>(pc = "ended")

\* a run ended by returning from its second attempt
C15_Witness ==
  /\ Returned
  /\ attempt = 2
  /\ sleeps = 1
  /\ max_retries = 2

\* C16: a judge call that raises drops that source only: the attempt goes on,
\* nothing is retried and the sources and metrics kept so far stay kept
C16_JudgeErrorRejectsOneSource ==
  [][ (pc = "filter" /\ mi <= Len(metrics_list) /\ si <= Len(metrics_list[mi].sources)
         /\ Len(judgeLog') = Len(judgeLog) + 1
         /\ judgeLog'[Len(judgeLog')].response = "RAISE")
      => /\ pc' = "filter"
         /\ filtered_sources' = filtered_sources
         /\ filtered_metrics' = filtered_metrics
         /\ metrics_list' = metrics_list
         /\ mi' = mi /\ si' = si + 1
         /\ attempt' = attempt
         /\ genCalls' = genCalls
         /\ lastError' = lastError
    ]_vars

\* a batch was returned although the judge raised on a source of a metric of
\* which another source was kept
C16_Witness ==
  /\ Returned
  /\ \E i, j \in 1..Len(judgeLog) :
        /\ judgeLog[i].response = "RAISE"
        /\ Affirmative(judgeLog[j].response)
        /\ judgeLog[i].metric = judgeLog[j].metric

\* C17: a metric without an accepted source is dropped without an error, the
\* metrics kept so far stay, and an empty batch fails the count check
C17_EmptyMetricDropped ==
  [][ /\ (pc = "filter" /\ mi <= Len(metrics_list)
            /\ si > Len(metrics_list[mi].sources) /\ filtered_sources = <<>>
          => /\ pc' = "filter"
             /\ filtered_metrics' = filtered_metrics
             /\ mi' = mi + 1
             /\ lastError' = lastError)
      /\ (AtValidation /\ filtered_metrics = <<>>
          => /\ pc' = "except"
             /\ lastError' = [attempt |-> attempt, kind |-> "batch_count"])
    ]_vars

\* one metric was requested, its only source was rejected, the count check failed
C17_Witness ==
  /\ pc = "except"
  /\ lastError.kind = "batch_count"
  /\ inputs.num_metrics = 1
  /\ Len(metrics_list) = 1
  /\ Len(metrics_list[1].sources) = 1

\* C18: with structured extraction enabled it runs first; the bracket-scanning
\* path runs only after it raised or when it is disabled, on the same text,
\* and the attempt fails at extraction only when the bracket-scanning path fails
C18_StructuredFirstThenFallback ==
  [][ /\ (pc = "extract" /\ output.form # "nonstr" /\ use_structured =>
            /\ pc' \in { "filter", "fallback" }
            /\ pc' = "filter" <=> structured_ok'
            /\ output' = output)
      /\ (pc' = "fallback" => use_structured /\ ~structured_ok' /\ pc = "extract")
      /\ (pc = "fallback" \/ (pc = "extract" /\ output.form # "nonstr" /\ ~use_structured) =>
            /\ output' = output
            /\ ~structured_ok'
            /\ IF ExtractJsonArray(output).error = "ok"
               THEN pc' = "filter" /\ metrics_list' = output.items
               ELSE pc' = "except" /\ lastError'.kind \in { "extraction", "json_decode" })
    ]_vars

\* the bracket-scanning path produced the candidates after the structured
\* extraction raised
C18_Witness ==
  /\ pc = "filter"
  /\ use_structured
  /\ ~structured_ok
  /\ metrics_list # <<>>
  /\ mi = 1 /\ si = 1

(***************************************************************************)
(* Texts as the claims about the extractor describe them.                  *)
(***************************************************************************)
MinOf(S) == CHOOSE x \in S : \A y \in S : x <= y
MaxOf(S) == CHOOSE x \in S : \A y \in S : x >= y

\* the text without its leading and trailing whitespace
TrimmedOf(t) ==
  LET solid == { i \in 1..Len(t) : t[i] \notin Whitespace }
  IN  IF solid = {} THEN <<>> ELSE SubSeq(t, MinOf(solid), MaxOf(solid))

\* the positions of the markers that open a fenced block
OpeningFences(t) ==
  { p \in 1..Len(t) :
      /\ t[p] = FENCE
      /\ Cardinality({ q \in 1..(p - 1) : t[q] = FENCE }) % 2 = 0 }

\* the text between the marker at p and the next marker (or the end)
BlockAt(t, p) ==
  LET later == { q \in (p + 1)..Len(t) : t[q] = FENCE }
  IN  SubSeq(t, p + 1, IF later = {} THEN Len(t) ELSE MinOf(later) - 1)

BreaksOf(b) == { i \in 1..Len(b) : b[i] \in LineBreaks }
FirstLineOf(b) == IF BreaksOf(b) = {} THEN b ELSE SubSeq(b, 1, MinOf(BreaksOf(b)) - 1)
AfterFirstLine(b) ==
  IF BreaksOf(b) = {} THEN <<>> ELSE SubSeq(b, MinOf(BreaksOf(b)) + 1, Len(b))

\* the first line is json, json5 or jsonc in any letter case
HasTagLine(b) ==
  /\ b # <<>>
  /\ TrimmedOf(FirstLineOf(b)) \in { <<"json">>, <<"JSON">>, <<"json5">>, <<"jsonc">> }

\* the same lines with every line break written as "\n"
Rejoined(c) == [i \in 1..Len(c) |-> IF c[i] \in LineBreaks THEN "\n" ELSE c[i]]

\* blocks with a tag line whose remaining trimmed content is a bracketed array
TaggedArrayBlocks(t) ==
  { p \in OpeningFences(t) :
      /\ HasTagLine(BlockAt(t, p))
      /\ Bracketed(TrimmedOf(AfterFirstLine(BlockAt(t, p)))) }

\* the content of a block: after its tag line if it has one, trimmed
BlockContent(b) ==
  TrimmedOf(IF HasTagLine(b) THEN Rejoined(AfterFirstLine(b)) ELSE b)

\* blocks, tagged or not, whose content is a bracketed array
ArrayBlocks(t) == { p \in OpeningFences(t) : Bracketed(BlockContent(BlockAt(t, p))) }

ExtractorDone == ex_pc \in { "returned", "raised" }

\* C19: a text whose trimmed form starts with "[" and ends with "]" is
\* returned as exactly that trimmed text, whatever fences, brackets or quotes
\* it contains; the extractor never raises for it.
C19_WholeTextReturned ==
  (ExtractorDone /\ Bracketed(TrimmedOf(raw_text))) =>
    /\ ex_pc = "returned"
    /\ extracted.value = TrimmedOf(raw_text)

\* a padded bracketed text holding a fenced array that is not the answer
C19_Witness ==
  /\ ex_pc = "returned"
  /\ Bracketed(TrimmedOf(raw_text))
  /\ TrimmedOf(raw_text) # raw_text
  /\ ArrayBlocks(raw_text) # {}
  /\ extracted.value # BlockContent(BlockAt(raw_text, MinOf(ArrayBlocks(raw_text))))
  /\ extracted.value = TrimmedOf(raw_text)

\* C20 as stated: a text that is not itself a bracketed array and has a
\* fenced block with a tag line and bracketed remaining content yields the
\* content, after the tag line (line breaks read as "\n"), of the first such
\* tagged block.
C20_FirstTaggedBlockReturned ==
  (/\ ExtractorDone
   /\ ~Bracketed(TrimmedOf(raw_text))
   /\ TaggedArrayBlocks(raw_text) # {}) =>
    /\ ex_pc = "returned"
    /\ extracted.value =
         TrimmedOf(Rejoined(AfterFirstLine(BlockAt(raw_text,
                                                   MinOf(TaggedArrayBlocks(raw_text))))))

\* C20 amended: for the same texts the extractor returns the content of the
\* first fenced block, tagged or not, whose trimmed content (after a tag line
\* if it has one, its lines joined by "\n") is a bracketed array, and never
\* the result of the bracket scan.
C20_FirstArrayBlockReturned ==
  (/\ ExtractorDone
   /\ ~Bracketed(TrimmedOf(raw_text))
   /\ TaggedArrayBlocks(raw_text) # {}) =>
    /\ ex_pc = "returned"
    /\ extracted.value = BlockContent(BlockAt(raw_text, MinOf(ArrayBlocks(raw_text))))

\* an upper-case tag, and a bracket scan that would have found another array
C20_Witness ==
  /\ ex_pc = "returned"
  /\ ~Bracketed(TrimmedOf(raw_text))
  /\ TaggedArrayBlocks(raw_text) # {}
  /\ <<"JSON">> = TrimmedOf(FirstLineOf(BlockAt(raw_text, MinOf(TaggedArrayBlocks(raw_text)))))
  /\ ScanStrategy(StripText(raw_text)).ok
  /\ ScanStrategy(StripText(raw_text)).value # extracted.value

\* the array embedded in prose: it starts at the first "[" of a text without
\* fences
EmbeddedAt(t) ==
  { ij \in (1..Len(t)) \X (1..Len(t)) :
      /\ SubSeq(t, ij[1], ij[2]) \in EmbeddedArrays
      /\ \A k \in 1..Len(t) : t[k] # FENCE
      /\ \A k \in 1..(ij[1] - 1) : t[k] # "[" }

ScanTrace(t) ==
  LET start == MinOf({ i \in 1..Len(t) : t[i] = "[" })
      st[k \in (start - 1)..Len(t)] ==
        IF k = start - 1 THEN [depth |-> 0, str |-> FALSE, esc |-> FALSE]
        ELSE LET p == st[k - 1]
                 ch == t[k]
             IN  IF p.str
                 THEN IF p.esc THEN [p EXCEPT !.esc = FALSE]
                      ELSE IF ch = BACKSLASH THEN [p EXCEPT !.esc = TRUE]
                      ELSE IF ch = QUOTE THEN [p EXCEPT !.str = FALSE]
                      ELSE p
                 ELSE IF ch = QUOTE THEN [p EXCEPT !.str = TRUE]
                      ELSE IF ch = "[" THEN [p EXCEPT !.depth = p.depth + 1]
                      ELSE IF ch = "]" THEN [p EXCEPT !.depth = p.depth - 1]
                      ELSE p
  IN  st

HasOpeningBracket(t) == \E i \in 1..Len(t) : t[i] = "["

\* the depth counted from the first "[" outside string literals reaches zero
DepthReturnsToZero(t) ==
  /\ HasOpeningBracket(t)
  /\ \E k \in 1..Len(t) :
        /\ k >= MinOf({ i \in 1..Len(t) : t[i] = "[" })
        /\ t[k] = "]"
        /\ ~ScanTrace(t)[k - 1].str
        /\ ScanTrace(t)[k].depth = 0

\* C22: the extractor raises exactly when the text is not a bracketed array
\* as a whole, has no fenced array and the depth counted from its first "["
\* never returns to zero (in particular when it has no "["); when it raises
\* it yields no value.
C22_RaisesIffNoStrategySucceeds ==
  ExtractorDone =>
    /\ ex_pc = "raised" <=>
         /\ ~Bracketed(TrimmedOf(raw_text))
         /\ ArrayBlocks(raw_text) = {}
         /\ ~DepthReturnsToZero(raw_text)
    /\ ~HasOpeningBracket(raw_text) => ex_pc = "raised"
    /\ ex_pc = "raised" => extracted = NoExtraction

\* a text with both brackets that still fails: the "]" is inside a string
C22_Witness ==
  /\ ex_pc = "raised"
  /\ \E i, j, k \in 1..Len(raw_text) :
        /\ i < j /\ j < k
        /\ raw_text[i] = "[" /\ raw_text[j] = QUOTE /\ raw_text[k] = "]"
  /\ extracted = NoExtraction

\* C23 (as claimed): a returned value starts with "[", ends with "]" and is
\* a contiguous part of the raw text, character for character.
C23_ReturnedIsSubstring ==
  ex_pc = "returned" =>
    /\ Bracketed(extracted.value)
    /\ \E i, j \in 1..Len(raw_text) : SubSeq(raw_text, i, j) = extracted.value

(***************************************************************************)
(* Metric field validation on its own.                                     *)
(***************************************************************************)
\* the host of the source's URL contains a trusted domain
HostTrusted(src) == \E domain \in TRUSTED_DOMAINS : Contains(src.url.host, domain)

\* every field but the source domains passes its validator
OtherFieldsValid(c) ==
  /\ validate_metric_name(c.metric).ok
  /\ <<c.min, c.max>> \in { <<0, 1>>, <<1, 5>> }
  /\ validate_general_text(c.description, 500).ok
  /\ validate_general_text(c.relevance, 500).ok
  /\ ValidateQueries(c.search_queries) # <<>>
  /\ \A i \in 1..Len(c.sources) : SourceModel(c.sources[i]).ok

SourceKeys(srcs) == [i \in 1..Len(srcs) |-> SourceKey(srcs[i])]

\* C24 (as claimed): with every other field valid, Metric validation keeps
\* exactly the sources whose host is trusted, in their order, and raises if
\* and only if there is no such source.
C24_UntrustedHostsDropped ==
  (mv_pc \in { "validated", "raised" } /\ OtherFieldsValid(candidate)) =>
    LET kept == SelectSeq(candidate.sources, HostTrusted)
    IN  /\ mv_pc = "raised" <=> kept = <<>>
        /\ mv_pc = "validated" => SourceKeys(validated.sources) = SourceKeys(kept)

\* C26: validating a Metric that validation produced succeeds and yields the
\* same Metric: same name, same sources in the same order, same queries.
C26_ValidationIdempotent ==
  mv_pc = "revalidated" =>
    /\ revalidated.ok
    /\ revalidated.value = validated

\* the first validation trimmed the name and a title, dropped a source and
\* cleaned the queries
C26_Witness ==
  /\ mv_pc = "revalidated"
  /\ candidate.metric = " Accuracy"
  /\ validated.metric = "Accuracy"
  /\ Len(validated.sources) < Len(candidate.sources)
  /\ \E i \in 1..Len(validated.sources) : validated.sources[i].title = "P Paper"
  /\ Len(validated.search_queries) < Len(candidate.search_queries)
  /\ revalidated.ok
  /\ revalidated.value.sources = validated.sources

(***************************************************************************)
(* build_task_context on its own.                                          *)
(***************************************************************************)
\* the runs of a label between its first and last non-blank run
TrimmedRuns(l) ==
  LET solid == { i \in 1..Len(l) : l[i].ch \notin LabelWhitespace }
  IN  IF solid = {} THEN <<>> ELSE SubSeq(l, MinOf(solid), MaxOf(solid))

\* the number of characters of the trimmed label
TrimmedLength(l) ==
  LET t == TrimmedRuns(l)
      sum[i \in 0..Len(t)] == IF i = 0 THEN 0 ELSE sum[i - 1] + t[i].n
  IN  sum[Len(t)]

LabelAcceptable(l) ==
  /\ \A i \in 1..Len(TrimmedRuns(l)) : TrimmedRuns(l)[i].ch \in { "a", " " }
  /\ TrimmedLength(l) >= 2
  /\ TrimmedLength(l) <= 100

ArgsAcceptable(a) ==
  /\ LabelAcceptable(a.task_domain)
  /\ LabelAcceptable(a.task_field)
  /\ LabelAcceptable(a.task_type)
  /\ a.num_metrics \in 1..50
  /\ a.min_sources_per_metric \in 1..20

CandidateRecords == lastGen.result.items

\* C25 (as claimed): an attempt returns only if every candidate record of
\* its raw text is valid in every field other than the domain of a source.
C25_FieldViolationFailsAttempt ==
  Returned =>
    \A i \in 1..Len(CandidateRecords) : OtherFieldsValid(CandidateRecords[i])

\* the sources of a record that Metric(...) keeps; none when it raises
SurvivingSources(rec) ==
  IF MetricModel(rec).ok
  THEN SelectSeq(rec.sources, LAMBDA src : SourceModel(src).ok /\ IsTrusted(src))
  ELSE <<>>

\* the judge queries an attempt owes: record by record, the surviving sources
ExpectedQueries(recs) ==
  Flatten([i \in 1..Len(recs) |->
             [k \in 1..Len(SurvivingSources(recs[i])) |->
                <<i, SourceKey(SurvivingSources(recs[i])[k])>>]])

\* C28 (as claimed): when the relevance filter of an attempt is through, the
\* judge has been asked once for each source that survives the field
\* validation of its record, and for no other source.
C28_JudgedExactlySurvivors ==
  AtValidation =>
    [k \in 1..Len(judgeLog) |-> <<judgeLog[k].metric, SourceKey(judgeLog[k].source)>>]
      = ExpectedQueries(CandidateRecords)

\* C29: a step issues at most one judge query, which is answered (or raises)
\* within that step; it is the query for source si of record mi, the loop
\* then moves to the next source, and the queries of an attempt are logged
\* record by record.
C29_JudgedOneAtATimeInOrder ==
  [][ /\ judgeLog' # judgeLog =>
           \/ judgeLog' = <<>>
           \/ /\ pc = "filter" /\ pc' = "filter"
              /\ mi \in 1..Len(metrics_list)
              /\ si \in 1..Len(metrics_list[mi].sources)
              /\ judgeLog' = Append(judgeLog,
                                    [metric |-> mi,
                                     source |-> metrics_list[mi].sources[si],
                                     response |-> judgeLog'[Len(judgeLog')].response])
              /\ judgeLog'[Len(judgeLog')].response \in JudgeResponses
              /\ mi' = mi
              /\ si' = si + 1
      /\ (pc = "filter" /\ pc' = "filter") =>
           \/ mi' = mi /\ si' = si + 1
           \/ mi' = mi + 1 /\ si' = 1 /\ si = Len(metrics_list[mi].sources) + 1
      /\ \A k \in 1..(Len(judgeLog') - 1) : judgeLog'[k].metric <= judgeLog'[k + 1].metric
    ]_vars

\* the judge raised for the source of the first record and was then asked
\* about the source of the second record
C29_Witness ==
  /\ pc = "filter"
  /\ Len(judgeLog) = 2
  /\ judgeLog[1].metric = 1
  /\ judgeLog[1].response = "RAISE"
  /\ judgeLog[2].metric = 2
  /\ judgeLog[2].source = metrics_list[2].sources[1]

\* the checks of lines 178-185 pass for the filtered batch
BatchValid ==
  /\ AssertMinMaxCombo(filtered_metrics)
  /\ MetricsOutputModel(
        MetricsConstraintsModel(inputs.num_metrics, inputs.min_sources_per_metric).value,
        filtered_metrics) = "ok"

\* C30: the relevance filter starts only when extraction has produced a
\* list, the batch checks run only when the filter is through, a batch is
\* returned only by the step that found the filtered batch of that attempt
\* valid, and once a batch is returned there is no generator call, judge
\* query or backoff any more.
C30_StagesInOrder ==
  [][ /\ (pc # "filter" /\ pc' = "filter") =>
           /\ pc \in { "extract", "fallback" }
           /\ mi' = 1 /\ si' = 1 /\ judgeLog' = <<>> /\ filtered_metrics' = <<>>
      /\ (pc = "filter" /\ pc' \notin { "filter", "ended" }) =>
           /\ AtValidation
           /\ ~BatchValid \/ ~JsonSerializable(filtered_metrics)
           /\ pc' = "except"
      /\ (Returned' /\ ~Returned) =>
           /\ AtValidation
           /\ BatchValid
           /\ attempt' = attempt
           /\ ReturnedMetrics' = filtered_metrics
      /\ Returned =>
           /\ genCalls' = genCalls
           /\ judgeLog' = judgeLog
           /\ sleeps' = sleeps
           /\ Returned'
    ]_vars

\* a second attempt returned its batch after two judge queries
C30_Witness ==
  /\ Returned
  /\ attempt = 2
  /\ genCalls = 2
  /\ sleeps = 1
  /\ Len(judgeLog) = 2

(***************************************************************************)
(* C31                                                                     *)
(***************************************************************************)
\* both checks have run on the pair
ComboCompared == mm_pc = "done"

\* C31: for every pair of integers (min, max), _assert_min_max_combo accepts
\* the pair if and only if Metric(...) accepts it, and both accept exactly
\* the pairs (0,1) and (1,5).
C31_MinMaxChecksAgree ==
  ComboCompared =>
    /\ guard_ok <=> schema_ok
    /\ guard_ok <=> mm_combo \in { <<0, 1>>, <<1, 5>> }
    /\ schema_ok <=> mm_combo \in { <<0, 1>>, <<1, 5>> }

\* both checks have rejected a pair whose min and max are each allowed
\* on their own
C31_Witness ==
  /\ ComboCompared
  /\ mm_combo = <<0, 5>>
  /\ ~guard_ok
  /\ ~schema_ok

(***************************************************************************)
(* C32                                                                     *)
(***************************************************************************)
\* the source at position i of the candidate came through _filter_sources
PassedFilter(i) ==
  /\ mv_pc = "validated"
  /\ \E k \in 1..Len(validated.sources) :
       SourceKey(validated.sources[k]) = SourceKey(candidate.sources[i])

\* C32 (as claimed): a source passes the trusted-domain filter if and only
\* if the host of its URL contains an entry of the allow-list; an entry that
\* occurs only outside the host does not make the source trusted, and a
\* host that embeds an entry (a subdomain) is trusted.
C32_TrustedIffHostContains ==
  (mv_pc \in { "validated", "raised" } /\ OtherFieldsValid(candidate)) =>
    \A i \in 1..Len(candidate.sources) :
      PassedFilter(i) <=> HostTrusted(candidate.sources[i])

(***************************************************************************)
(* C33                                                                     *)
(***************************************************************************)
\* the number of GET requests the call has issued
GetCount == Len(rq_log)

\* an answer after which line 51 goes round the loop
Retriable(e) == e.kind = "http_error" /\ e.code \in RetriableCodes

\* the call has returned or raised
RetryDone == rq_pc \in { "returned", "raised" }

\* C33: retry_request issues at most retries+1 GET requests; every request
\* after the first follows an HTTP 429, 500, 502, 503 or 504 answer received
\* while retries remained; after any other error, or once the retries are
\* used up, it returns None; it never raises.
C33_RetryRequestBounded ==
  /\ GetCount <= rq_retries + 1
  /\ \A i \in 1..GetCount :
       (i < GetCount \/ rq_pc = "loop") => (Retriable(rq_log[i]) /\ i <= rq_retries)
  /\ rq_result.kind # "raised"
  /\ rq_pc # "raised"
  /\ RetryDone =>
       IF GetCount > 0 /\ rq_log[GetCount].kind = "ok"
       THEN rq_result.kind = "body"
       ELSE rq_result.kind = "none"

\* the call has used every retry on retriable answers and returned None
C33_Witness ==
  /\ rq_pc = "returned"
  /\ rq_retries = MaxHttpRetries
  /\ GetCount = rq_retries + 1
  /\ \A i \in 1..GetCount : Retriable(rq_log[i])
  /\ rq_result.kind = "none"
  /\ Len(rq_slept) = rq_retries

(***************************************************************************)
(* C34                                                                     *)
(***************************************************************************)
\* the entries passed to log so far, in order
LoggedEntries ==
  LET logs == SelectSeq(lg_calls, LAMBDA c : c.op = "log")
  IN  [i \in 1..Len(logs) |-> logs[i].entry]

RECURSIVE FileLines(_)
\* the lines of the files named in T, oldest file first
FileLines(T) ==
  IF T = {} THEN <<>>
  ELSE LET first == CHOOSE f \in T : \A g \in T : f <= g
       IN  lg_dir[first] \o FileLines(T \ { first })

\* the latest call was a save
EndsWithSave == lg_calls # <<>> /\ lg_calls[Len(lg_calls)].op = "save"

\* this step is a save call made with nothing pending
EmptySaveStep ==
  /\ lg_calls' = Append(lg_calls, [op |-> "save", entry |-> <<>>])
  /\ lg_queries = <<>>

\* C34 (as claimed): after any sequence of log and save calls that ends with
\* a save, the log files hold every entry passed to log, each exactly once
\* and in the order logged, and the in-memory list is empty; a save with no
\* pending entries writes no file.
C34_NoLoggedQueryLost ==
  /\ [](EndsWithSave =>
          /\ FileLines(DOMAIN lg_dir) = LoggedEntries
          /\ lg_queries = <<>>)
  /\ [][EmptySaveStep => lg_dir' = lg_dir]_vars

(***************************************************************************)
(* C35                                                                     *)
(***************************************************************************)
\* the candidate list as it was handed to _validate_and_filter_metrics
FilterInput ==
  IF structured_ok
  THEN NormalizeMetricsList([i \in 1..Len(output.items) |-> MetricModel(output.items[i]).value])
  ELSE NormalizeMetricsList(output.items)

RECURSIVE IsSubsequence(_, _)
\* sub is full with some entries left out
IsSubsequence(sub, full) ==
  IF sub = <<>> THEN TRUE
  ELSE IF full = <<>> THEN FALSE
  ELSE IF Head(sub) = Head(full) THEN IsSubsequence(Tail(sub), Tail(full))
  ELSE IsSubsequence(sub, Tail(full))

\* kept is cand with some of its sources left out and nothing else changed
KeptFrom(kept, cand) ==
  /\ [kept EXCEPT !.sources = <<>>] = [cand EXCEPT !.sources = <<>>]
  /\ IsSubsequence(kept.sources, cand.sources)

RECURSIVE KeptInOrder(_, _)
\* the kept metrics come from candidates met in the same relative order
KeptInOrder(kept, cands) ==
  IF kept = <<>> THEN TRUE
  ELSE IF cands = <<>> THEN FALSE
  ELSE IF KeptFrom(Head(kept), Head(cands)) THEN KeptInOrder(Tail(kept), Tail(cands))
  ELSE KeptInOrder(kept, Tail(cands))

\* C35: the metrics the relevance filter keeps are in the relative order of
\* the candidate list; the sources of a kept metric are a subsequence of its
\* original sources; its other fields are unchanged.
C35_FilterPreservesOrder ==
  AtValidation => KeptInOrder(filtered_metrics, FilterInput)

\* the filter kept both of two different candidates, each with its one source
C35_Witness ==
  /\ AtValidation
  /\ Len(FilterInput) = 2
  /\ Len(filtered_metrics) = 2
  /\ filtered_metrics[1] # filtered_metrics[2]
  /\ KeptFrom(filtered_metrics[1], FilterInput[1])
  /\ KeptFrom(filtered_metrics[2], FilterInput[2])
  /\ ~KeptFrom(filtered_metrics[1], FilterInput[2])

(***************************************************************************)
(* C36                                                                     *)
(***************************************************************************)
\* the run has ended with an exception
EndedInError == pc = "ended" /\ outcome.kind \notin { "running", "returned" }

\* the latest generation produced a raw text
GeneratedText == lastGen.result.form \in { "array", "prose", "malformed" }

\* an attempt has run on the text of the initial generation: the first pass
\* of the loop reads the output the pipeline was given, and on a text it goes
\* straight to extraction
FirstTextProcessed == attempt >= 1

\* C36 (as claimed): whatever the maximum attempt count, zero included, a run
\* whose initial generation produced a raw text never ends in an error
\* before an attempt has run extraction on that text.
C36_FirstTextAlwaysProcessed ==
  (EndedInError /\ GeneratedText) => FirstTextProcessed

====
